---- MODULE Spec2Model ----
(***************************************************************************)
(* AgentSH: the safety classifier (src/src/safety.rs) and the execution    *)
(* engine (src/src/execution_engine.rs) as a state machine.                *)
(*                                                                         *)
(* Strings are TLA+ strings; TLC evaluates Len, SubSeq and \o on them, so  *)
(* trimming, lower-casing, substring search and regular-expression         *)
(* matching are computed character by character, as the code does.         *)
(***************************************************************************)
EXTENDS Integers, Sequences, FiniteSets, TLC

(***************************************************************************)
(* str: the methods of Rust's str that the code calls.                     *)
(***************************************************************************)
Char(s, pos) == SubSeq(s, pos, pos)

\* char::is_whitespace, restricted to the characters a TLA+ string can hold
Whitespace == {" ", "\t", "\n", "\r", "\f"}

RECURSIVE TrimStartFrom(_, _)
TrimStartFrom(s, pos) ==
    IF pos <= Len(s) /\ Char(s, pos) \in Whitespace THEN TrimStartFrom(s, pos + 1) ELSE pos

RECURSIVE TrimEndFrom(_, _)
TrimEndFrom(s, j) ==
    IF j >= 1 /\ Char(s, j) \in Whitespace THEN TrimEndFrom(s, j - 1) ELSE j

\* str::trim
trim(s) == SubSeq(s, TrimStartFrom(s, 1), TrimEndFrom(s, Len(s)))

UpperCase == "ABCDEFGHIJKLMNOPQRSTUVWXYZ"
LowerCase == "abcdefghijklmnopqrstuvwxyz"
Digits == "0123456789"

CharsOf(s) == {Char(s, pos) : pos \in 1..Len(s)}

LowerOf(c) ==
    IF c \in CharsOf(UpperCase)
    THEN Char(LowerCase, CHOOSE pos \in 1..Len(UpperCase) : Char(UpperCase, pos) = c)
    ELSE c

RECURSIVE LowerFrom(_, _)
LowerFrom(s, pos) ==
    IF pos > Len(s) THEN "" ELSE LowerOf(Char(s, pos)) \o LowerFrom(s, pos + 1)

\* str::to_lowercase
to_lowercase(s) == LowerFrom(s, 1)

\* str::starts_with
starts_with(s, p) == Len(p) <= Len(s) /\ SubSeq(s, 1, Len(p)) = p

\* str::ends_with
ends_with(s, p) == Len(p) <= Len(s) /\ SubSeq(s, Len(s) - Len(p) + 1, Len(s)) = p

\* str::contains
contains(s, p) == \E pos \in 1..(Len(s) - Len(p) + 1) : SubSeq(s, pos, pos + Len(p) - 1) = p

\* str::is_empty
is_empty(s) == Len(s) = 0

\* Option<T>: None is <<>>, Some(v) is <<v>>
None == <<>>
Some(v) == <<v>>

(***************************************************************************)
(* regex::Regex: the syntax the patterns of safety.rs and of the default   *)
(* blocklist use.  A compiled expression is a syntax tree; Ends(re, s, pos)*)
(* is the set of positions at which a match of re that starts at position  *)
(* pos of s can end, and is_match searches every start position, as        *)
(* Regex::is_match does (an unanchored search).                            *)
(***************************************************************************)
WordChars == CharsOf(UpperCase) \cup CharsOf(LowerCase) \cup CharsOf(Digits) \cup {"_"}

Lit(str)    == [t |-> "lit", s |-> str]                 \* literal text
Set(cs)     == [t |-> "set", neg |-> FALSE, cs |-> cs]  \* [abc]
NotSet(cs)  == [t |-> "set", neg |-> TRUE, cs |-> cs]   \* [^abc]
Cat(rs)     == [t |-> "cat", rs |-> rs]                 \* r1 r2 ...
Alt(rs)     == [t |-> "alt", rs |-> rs]                 \* r1|r2|...
Star(r)     == [t |-> "star", r |-> r]                  \* r*
Plus(r)     == Cat(<<r, Star(r)>>)                      \* r+
Opt(r)      == Alt(<<r, Lit("")>>)                      \* r?
Bol         == [t |-> "bol"]                            \* ^
Eol         == [t |-> "eol"]                            \* $
WordB       == [t |-> "wordb"]                          \* \b
Sp          == Set(Whitespace)                          \* \s
NotSp       == NotSet(Whitespace)                       \* \S
Word        == Set(WordChars)                           \* \w
Dot         == NotSet({"\n"})                           \* .
Group(r)    == [t |-> "group", lazy |-> FALSE, r |-> r]  \* (r), r greedy
LazyGroup(r) == [t |-> "group", lazy |-> TRUE, r |-> r]  \* (r), r lazy as in (.+?)

IsWordAt(s, pos) == pos >= 1 /\ pos <= Len(s) /\ Char(s, pos) \in WordChars

RECURSIVE Ends(_, _, _), CatEnds(_, _, _, _), StarEnds(_, _, _, _)
Ends(re, s, pos) ==
    CASE re.t = "lit"   -> IF pos + Len(re.s) - 1 <= Len(s)
                              /\ SubSeq(s, pos, pos + Len(re.s) - 1) = re.s
                           THEN {pos + Len(re.s)} ELSE {}
      [] re.t = "set"   -> IF pos <= Len(s) /\ ((Char(s, pos) \in re.cs) # re.neg)
                           THEN {pos + 1} ELSE {}
      [] re.t = "cat"   -> CatEnds(re.rs, 1, s, {pos})
      [] re.t = "alt"   -> UNION {Ends(re.rs[k], s, pos) : k \in 1..Len(re.rs)}
      [] re.t = "star"  -> StarEnds(re.r, s, {pos}, {pos})
      [] re.t = "bol"   -> IF pos = 1 THEN {pos} ELSE {}
      [] re.t = "eol"   -> IF pos = Len(s) + 1 THEN {pos} ELSE {}
      [] re.t = "wordb" -> IF IsWordAt(s, pos - 1) # IsWordAt(s, pos) THEN {pos} ELSE {}
      [] re.t = "group" -> Ends(re.r, s, pos)

\* the positions reachable from `from` through rs[k], rs[k+1], ...
CatEnds(rs, k, s, from) ==
    IF k > Len(rs) \/ from = {} THEN from
    ELSE CatEnds(rs, k + 1, s, UNION {Ends(rs[k], s, p) : p \in from})

\* the positions reachable from `frontier` through zero or more matches of r
StarEnds(r, s, frontier, seen) ==
    LET next == (UNION {Ends(r, s, p) : p \in frontier}) \ seen
    IN  IF next = {} THEN seen ELSE StarEnds(r, s, next, seen \cup next)

\* Regex::is_match
is_match(re, s) == \E pos \in 1..(Len(s) + 1) : Ends(re, s, pos) # {}

MaxOf(ps) == CHOOSE p \in ps : \A q \in ps : q <= p
MinOf(ps) == CHOOSE p \in ps : \A q \in ps : p <= q

\* Regex::captures(s) and .get(1) of the result, for an expression that is a
\* sequence with one group in it: the match starts at the leftmost position
\* that has one; the quantifiers before the group are greedy, so the group
\* starts at the last position from which the rest can match; a lazy group
\* ends at the first position from which what follows it reaches its end, a
\* greedy group at the last.  The result is None, or Some of the text of the
\* group and the position just after it (Match::as_str and Match::end).
captures(re, s) ==
    LET k      == CHOOSE n \in 1..Len(re.rs) : re.rs[n].t = "group"
        before == Cat(SubSeq(re.rs, 1, k - 1))
        after  == Cat(SubSeq(re.rs, k + 1, Len(re.rs)))
        froms  == {pos \in 1..(Len(s) + 1) : Ends(re, s, pos) # {}}
        GroupEnds(first) == {e \in Ends(re.rs[k], s, first) : Ends(after, s, e) # {}}
    IN  IF froms = {} THEN None
        ELSE LET first == MaxOf({p \in Ends(before, s, MinOf(froms)) : GroupEnds(p) # {}})
                 last  == IF re.rs[k].lazy THEN MinOf(GroupEnds(first))
                                           ELSE MaxOf(GroupEnds(first))
             IN  Some([text |-> SubSeq(s, first, last - 1), end |-> last])

(***************************************************************************)
(* safety.rs: the pattern lists, each pattern beside its source text.      *)
(***************************************************************************)
\* DESTRUCTIVE_FS_PATTERNS (safety.rs:80-100)
DESTRUCTIVE_FS_PATTERNS == <<
    Cat(<<Lit("rm"), Plus(Sp), Star(Dot), Lit("-"), Set({"r", "R"})>>),  \* rm\s+.*-[rR]
    Cat(<<Lit("rm"), Plus(Sp), Lit("-"), Star(NotSet({"-"})), Lit("f")>>),  \* rm\s+-[^-]*f
    Cat(<<Lit("rm"), Plus(Sp), Lit("/")>>),  \* rm\s+/
    Cat(<<Lit("rmdir"), Plus(Sp), Lit("--ignore-fail")>>),  \* rmdir\s+--ignore-fail
    Cat(<<Lit("find"), Plus(Sp), Star(Dot), Lit("-delete")>>),  \* find\s+.*-delete
    Cat(<<Lit("find"), Plus(Sp), Star(Dot), Lit("-exec"), Plus(Sp), Lit("rm")>>),  \* find\s+.*-exec\s+rm
    Cat(<<Lit(">"), Star(Sp), Lit("/dev/sd"), Set(CharsOf(LowerCase))>>),  \* >\s*/dev/sd[a-z]
    Cat(<<Lit("mv"), Plus(Sp), Lit("/"), Sp>>),  \* mv\s+/\s
    Cat(<<Lit("chmod"), Plus(Sp), Lit("-R"), Plus(Sp), Lit("777")>>),  \* chmod\s+-R\s+777
    Cat(<<Lit("chown"), Plus(Sp), Lit("-R")>>),  \* chown\s+-R
    Cat(<<Lit("truncate"), Plus(Sp)>>),  \* truncate\s+
    Cat(<<Lit(">"), Star(Sp), Lit("/dev/null"), Plus(Sp), Lit("2>&1"), Star(Sp), Lit("<")>>),  \* >\s*/dev/null\s+2>&1\s*<
    Cat(<<Lit("cat"), Plus(Sp), Lit("/dev/zero")>>),  \* cat\s+/dev/zero
    Cat(<<Lit("cat"), Plus(Sp), Lit("/dev/urandom")>>),  \* cat\s+/dev/urandom
    Cat(<<Lit(":"), Star(Sp), Lit(">"), Star(Sp), Plus(NotSp)>>),  \* :\s*>\s*\S+
    Cat(<<Lit("rsync"), Plus(Sp), Star(Dot), Lit("--delete")>>)  \* rsync\s+.*--delete
>>

\* BLOCK_DEVICE_PATTERNS (safety.rs:103-112)
BLOCK_DEVICE_PATTERNS == <<
    Cat(<<Lit("dd"), Plus(Sp), Star(Dot), Lit("of=/dev/")>>),  \* dd\s+.*of=/dev/
    Lit("mkfs"),  \* mkfs
    Lit("fdisk"),  \* fdisk
    Lit("parted"),  \* parted
    Lit("wipefs"),  \* wipefs
    Cat(<<Lit("shred"), Plus(Sp), Lit("/dev/")>>)  \* shred\s+/dev/
>>

\* NETWORK_PATTERNS (safety.rs:115-131)
NETWORK_PATTERNS == <<
    Cat(<<Lit("iptables"), Plus(Sp), Lit("-F")>>),  \* iptables\s+-F
    Cat(<<Lit("iptables"), Plus(Sp), Lit("-P"), Plus(Sp), Plus(Word), Plus(Sp), Lit("DROP")>>),  \* iptables\s+-P\s+\w+\s+DROP
    Cat(<<Lit("ufw"), Plus(Sp), Lit("disable")>>),  \* ufw\s+disable
    Cat(<<Lit("firewall-cmd"), Plus(Sp), Lit("--panic")>>),  \* firewall-cmd\s+--panic
    Cat(<<Lit("nft"), Plus(Sp), Lit("flush")>>),  \* nft\s+flush
    Cat(<<Lit("ip"), Plus(Sp), Lit("route"), Plus(Sp), Alt(<<Lit("del"), Lit("flush")>>)>>),  \* ip\s+route\s+(del|flush)
    Cat(<<Lit("ip"), Plus(Sp), Lit("addr"), Plus(Sp), Alt(<<Lit("del"), Lit("flush")>>)>>),  \* ip\s+addr\s+(del|flush)
    Cat(<<Lit("ip"), Plus(Sp), Lit("link"), Plus(Sp), Lit("set"), Plus(Sp), Plus(Word), Plus(Sp), Lit("down")>>),  \* ip\s+link\s+set\s+\w+\s+down
    Cat(<<Lit("ifconfig"), Plus(Sp), Plus(Word), Plus(Sp), Lit("down")>>),  \* ifconfig\s+\w+\s+down
    Cat(<<Lit("route"), Plus(Sp), Lit("del")>>),  \* route\s+del
    Cat(<<Lit("iptables"), Plus(Sp), Lit("-X")>>),  \* iptables\s+-X
    Cat(<<Lit("iptables"), Plus(Sp), Lit("-D")>>)  \* iptables\s+-D
>>

\* DATABASE_PATTERNS (safety.rs:134-145)
DATABASE_PATTERNS == <<
    Cat(<<Lit("DROP"), Plus(Sp), Alt(<<Lit("DATABASE"), Lit("TABLE"), Lit("SCHEMA")>>)>>),  \* DROP\s+(DATABASE|TABLE|SCHEMA)
    Cat(<<Lit("TRUNCATE"), Plus(Sp), Lit("TABLE")>>),  \* TRUNCATE\s+TABLE
    Cat(<<Lit("DELETE"), Plus(Sp), Lit("FROM"), Plus(Sp), Plus(Word), Star(Sp), Alt(<<Lit(";"), Eol>>)>>),  \* DELETE\s+FROM\s+\w+\s*(;|$)
    Cat(<<Lit("mysql"), Plus(Sp), Star(Dot), Lit("-e"), Star(Sp), Set({"'", "\""}), Star(Dot), Lit("DROP")>>),  \* mysql\s+.*-e\s*['"].*DROP
    Cat(<<Lit("psql"), Plus(Sp), Star(Dot), Lit("-c"), Star(Sp), Set({"'", "\""}), Star(Dot), Lit("DROP")>>),  \* psql\s+.*-c\s*['"].*DROP
    Cat(<<Lit("mongo"), Plus(Sp), Star(Dot), Lit("--eval"), Star(Sp), Set({"'", "\""}), Star(Dot), Lit("drop")>>),  \* mongo\s+.*--eval\s*['"].*drop
    Cat(<<Lit("redis-cli"), Plus(Sp), Star(Dot), Lit("FLUSHALL")>>),  \* redis-cli\s+.*FLUSHALL
    Cat(<<Lit("redis-cli"), Plus(Sp), Star(Dot), Lit("FLUSHDB")>>)  \* redis-cli\s+.*FLUSHDB
>>

\* CRITICAL_SERVICE_PATTERNS (safety.rs:148-161)
CRITICAL_SERVICE_PATTERNS == <<
    Cat(<<Lit("systemctl"), Plus(Sp), Alt(<<Lit("stop"), Lit("restart"), Lit("disable")>>), Plus(Sp), Lit("ssh")>>),  \* systemctl\s+(stop|restart|disable)\s+ssh
    Cat(<<Lit("systemctl"), Plus(Sp), Alt(<<Lit("stop"), Lit("restart"), Lit("disable")>>), Plus(Sp), Lit("sshd")>>),  \* systemctl\s+(stop|restart|disable)\s+sshd
    Cat(<<Lit("service"), Plus(Sp), Lit("ssh"), Plus(Sp), Alt(<<Lit("stop"), Lit("restart")>>)>>),  \* service\s+ssh\s+(stop|restart)
    Cat(<<Lit("service"), Plus(Sp), Lit("sshd"), Plus(Sp), Alt(<<Lit("stop"), Lit("restart")>>)>>),  \* service\s+sshd\s+(stop|restart)
    Cat(<<Lit("kill"), Plus(Sp), Lit("-9"), Plus(Sp), Lit("1"), WordB>>),  \* kill\s+-9\s+1\b
    Cat(<<Lit("pkill"), Plus(Sp), Star(Dot), Lit("init")>>),  \* pkill\s+.*init
    Cat(<<Lit("systemctl"), Plus(Sp), Star(Dot), Lit("halt")>>),  \* systemctl\s+.*halt
    Lit("shutdown"),  \* shutdown
    Lit("reboot"),  \* reboot
    Cat(<<Lit("init"), Plus(Sp), Set({"0", "6"})>>)  \* init\s+[06]
>>

\* PACKAGE_PATTERNS (safety.rs:164-177)
PACKAGE_PATTERNS == <<
    Cat(<<Lit("apt"), Opt(Lit("-get")), Plus(Sp), Alt(<<Lit("install"), Lit("remove"), Lit("purge"), Lit("autoremove")>>)>>),  \* apt(-get)?\s+(install|remove|purge|autoremove)
    Cat(<<Lit("apt"), Plus(Sp), Star(Dot), Lit("--purge")>>),  \* apt\s+.*--purge
    Cat(<<Lit("dpkg"), Plus(Sp), Alt(<<Lit("-r"), Lit("-P"), Lit("--remove"), Lit("--purge")>>)>>),  \* dpkg\s+(-r|-P|--remove|--purge)
    Cat(<<Lit("yum"), Plus(Sp), Alt(<<Lit("install"), Lit("remove"), Lit("erase")>>)>>),  \* yum\s+(install|remove|erase)
    Cat(<<Lit("dnf"), Plus(Sp), Alt(<<Lit("install"), Lit("remove"), Lit("erase")>>)>>),  \* dnf\s+(install|remove|erase)
    Cat(<<Lit("pacman"), Plus(Sp), Lit("-"), Set({"R", "S"})>>),  \* pacman\s+-[RS]
    Cat(<<Lit("brew"), Plus(Sp), Alt(<<Lit("install"), Lit("uninstall"), Lit("remove")>>)>>),  \* brew\s+(install|uninstall|remove)
    Cat(<<Lit("pip"), Plus(Sp), Lit("uninstall")>>),  \* pip\s+uninstall
    Cat(<<Lit("npm"), Plus(Sp), Alt(<<Lit("uninstall"), Lit("remove")>>), Star(Dot), Lit("-g")>>),  \* npm\s+(uninstall|remove).*-g
    Cat(<<Lit("cargo"), Plus(Sp), Lit("uninstall")>>)  \* cargo\s+uninstall
>>

\* SUDO_PATTERN (safety.rs:180): (^|\||\&\&|\;)\s*sudo\s
SUDO_PATTERN == Cat(<<Alt(<<Bol, Lit("|"), Lit("&&"), Lit(";")>>), Star(Sp), Lit("sudo"), Sp>>)

(***************************************************************************)
(* Regex::new on the pattern texts a policy's blocklist holds: the five    *)
(* default patterns of config.rs compile; "(" and "[a-" are rejected by    *)
(* the regex parser (unclosed group, unclosed class); "sudo" and "echo"    *)
(* are plain literals a user may add to the blocklist.                     *)
(***************************************************************************)
Compiled(re) == [ok |-> TRUE, re |-> re]
CompileError == [ok |-> FALSE]

Regex_new(pattern) ==
    CASE pattern = "rm\\s+-rf\\s+/\\s*$" ->
           Compiled(Cat(<<Lit("rm"), Plus(Sp), Lit("-rf"), Plus(Sp), Lit("/"), Star(Sp), Eol>>))
      [] pattern = "rm\\s+-rf\\s+/\\*" ->
           Compiled(Cat(<<Lit("rm"), Plus(Sp), Lit("-rf"), Plus(Sp), Lit("/*")>>))
      [] pattern = "dd\\s+.*of=/dev/sd[a-z]\\s*$" ->
           Compiled(Cat(<<Lit("dd"), Plus(Sp), Star(Dot), Lit("of=/dev/sd"), Set(CharsOf(LowerCase)), Star(Sp), Eol>>))
      [] pattern = "mkfs\\.\\S+\\s+/dev/sd[a-z]\\s*$" ->
           Compiled(Cat(<<Lit("mkfs."), Plus(NotSp), Plus(Sp), Lit("/dev/sd"), Set(CharsOf(LowerCase)), Star(Sp), Eol>>))
      [] pattern = ":\\(\\)\\{\\s*:\\|:\\s*&\\s*\\}\\s*;" ->
           Compiled(Cat(<<Lit(":(){"), Star(Sp), Lit(":|:"), Star(Sp), Lit("&"), Star(Sp), Lit("}"), Star(Sp), Lit(";")>>))
      [] pattern = "sudo" ->
           Compiled(Lit("sudo"))
      [] pattern = "echo" ->
           Compiled(Lit("echo"))
      [] pattern = "(" -> CompileError
      [] pattern = "[a-" -> CompileError
      [] OTHER -> CompileError

\* SafetyConfig::default().blocked_patterns (config.rs:260-266)
DefaultBlockedPatterns == <<
    "rm\\s+-rf\\s+/\\s*$",
    "rm\\s+-rf\\s+/\\*",
    "dd\\s+.*of=/dev/sd[a-z]\\s*$",
    "mkfs\\.\\S+\\s+/dev/sd[a-z]\\s*$",
    ":\\(\\)\\{\\s*:\\|:\\s*&\\s*\\}\\s*;"
>>

\* SafetyConfig::default().protected_paths (config.rs:267-272)
DefaultProtectedPaths == <<"/etc/passwd", "/etc/shadow", "/etc/sudoers", "~/.ssh/authorized_keys">>

\* dirs::home_dir() of the invoking user
home_dir == "/home/u"

\* safety.rs shellexpand_path: a leading "~/" becomes the home directory
shellexpand_path(path) ==
    IF starts_with(path, "~/")
    THEN home_dir \o SubSeq(path, 2, Len(path))
    ELSE path

\* SafetyFlags::default()
DefaultFlags == [
    is_destructive |-> FALSE,
    requires_sudo |-> FALSE,
    affects_critical_service |-> FALSE,
    modifies_packages |-> FALSE,
    modifies_protected_path |-> FALSE,
    affects_database |-> FALSE,
    affects_network |-> FALSE,
    is_blocked |-> FALSE,
    warnings |-> <<>>
]

\* SafetyFlags::has_concerns
has_concerns(flags) ==
    \/ flags.is_destructive
    \/ flags.requires_sudo
    \/ flags.affects_critical_service
    \/ flags.modifies_packages
    \/ flags.modifies_protected_path
    \/ flags.affects_database
    \/ flags.affects_network
    \/ flags.is_blocked

\* `for pattern in LIST.iter() { if pattern.is_match(cmd) { ...; break; } }`
AnyMatch(patterns, cmd) == \E k \in 1..Len(patterns) : is_match(patterns[k], cmd)

\* the blocklist loop ending at a pattern that does not compile
RECURSIVE FirstBlockedUntilError(_, _, _)
FirstBlockedUntilError(patterns, k, cmd) ==
    IF k > Len(patterns) THEN 0
    ELSE LET re == Regex_new(patterns[k])
         IN  IF ~re.ok THEN 0
             ELSE IF is_match(re.re, cmd) THEN k
             ELSE FirstBlockedUntilError(patterns, k + 1, cmd)

\* The blocklist loop of analyze_command: the index of the first pattern that
\* compiles and matches, 0 when there is none (a pattern that does not compile
\* is skipped by `if let Ok(re)`).
RECURSIVE FirstBlocked(_, _, _)
FirstBlocked(patterns, k, cmd) ==
    IF k > Len(patterns) THEN 0
    ELSE LET re == Regex_new(patterns[k])
         IN  IF re.ok /\ is_match(re.re, cmd) THEN k
             ELSE FirstBlocked(patterns, k + 1, cmd)

\* the protected-path loop ending at its first matching path, as the loops
\* over the pattern lists do
RECURSIVE ProtectedWarningsFirst(_, _, _)
ProtectedWarningsFirst(paths, k, cmd) ==
    IF k > Len(paths) THEN <<>>
    ELSE IF contains(cmd, shellexpand_path(paths[k]))
    THEN <<"Command affects protected path: " \o paths[k]>>
    ELSE ProtectedWarningsFirst(paths, k + 1, cmd)

\* The protected-path loop of analyze_command: one warning per matching path,
\* in the order of the policy's list.
RECURSIVE ProtectedWarnings(_, _, _)
ProtectedWarnings(paths, k, cmd) ==
    IF k > Len(paths) THEN <<>>
    ELSE (IF contains(cmd, shellexpand_path(paths[k]))
          THEN <<"Command affects protected path: " \o paths[k]>>
          ELSE <<>>)
         \o ProtectedWarnings(paths, k + 1, cmd)

WarnIf(b, text) == IF b THEN <<text>> ELSE <<>>

\* is_destructive set by the two checks of files and devices alone
SetsDestructiveFiles(fs, blockdev, network, database) == fs \/ blockdev

\* `flags.is_destructive = true` in the arms of the destructive filesystem,
\* block device, network and database checks
SetsDestructive(fs, blockdev, network, database) == fs \/ blockdev \/ network \/ database

\* Checks 2-9 of analyze_command, for a command no blocklist pattern matched.
CategoryChecks(cmd, config) ==
    LET sudo     == is_match(SUDO_PATTERN, cmd) \/ starts_with(trim(cmd), "sudo ")
        fs       == AnyMatch(DESTRUCTIVE_FS_PATTERNS, cmd)
        blockdev == AnyMatch(BLOCK_DEVICE_PATTERNS, cmd)
        network  == AnyMatch(NETWORK_PATTERNS, cmd)
        database == AnyMatch(DATABASE_PATTERNS, cmd)
        critical == AnyMatch(CRITICAL_SERVICE_PATTERNS, cmd)
        packages == AnyMatch(PACKAGE_PATTERNS, cmd)
        paths    == ProtectedWarnings(config.protected_paths, 1, cmd)
    IN  [ is_destructive |-> SetsDestructive(fs, blockdev, network, database),
          requires_sudo |-> sudo,
          affects_critical_service |-> critical,
          modifies_packages |-> packages,
          modifies_protected_path |-> paths # <<>>,
          affects_database |-> database,
          affects_network |-> network,
          is_blocked |-> FALSE,
          warnings |->
              WarnIf(sudo, "Command requires elevated privileges")
              \o WarnIf(fs, "Command may delete or modify files")
              \o WarnIf(blockdev, "Command operates on block devices")
              \o WarnIf(network, "Command modifies network/firewall configuration")
              \o WarnIf(database, "Command may destroy database data")
              \o WarnIf(critical, "Command affects critical system services")
              \o WarnIf(packages, "Command modifies installed packages")
              \o paths ]

\* analyze_command without the early return of the blocklist arm: the category
\* checks run on a blocked command as well
analyze_command_no_return(cmd, config) ==
    LET k == FirstBlocked(config.blocked_patterns, 1, cmd)
        checks == CategoryChecks(cmd, config)
    IN  IF k # 0
        THEN [checks EXCEPT
                !.is_blocked = TRUE,
                !.warnings = <<"Command matches blocked pattern: "
                               \o config.blocked_patterns[k]>> \o @]
        ELSE checks

\* safety.rs analyze_command
analyze_command(cmd, config) ==
    LET k == FirstBlocked(config.blocked_patterns, 1, cmd)
    IN  IF k # 0
        THEN [DefaultFlags EXCEPT
                !.is_blocked = TRUE,
                !.warnings = <<"Command matches blocked pattern: "
                               \o config.blocked_patterns[k]>>]
        ELSE CategoryChecks(cmd, config)

\* safety.rs is_command_blocked
is_command_blocked(cmd, config) == FirstBlocked(config.blocked_patterns, 1, cmd) # 0

\* needs_confirmation that asks for whatever has_concerns reports
needs_confirmation_any_concern(flags, config) ==
    IF flags.is_blocked THEN TRUE
    ELSE IF flags.is_destructive /\ config.require_confirmation_for_destructive THEN TRUE
    ELSE IF flags.requires_sudo /\ config.require_confirmation_for_sudo THEN TRUE
    ELSE IF flags.affects_critical_service THEN TRUE
    ELSE IF flags.modifies_packages THEN TRUE
    ELSE IF flags.affects_database THEN TRUE
    ELSE IF flags.affects_network THEN TRUE
    ELSE FALSE

\* needs_confirmation with the service, database and network arms under the
\* require_confirmation_for_destructive toggle
needs_confirmation_by_toggle(flags, config) ==
    IF flags.is_blocked THEN TRUE
    ELSE IF flags.is_destructive /\ config.require_confirmation_for_destructive THEN TRUE
    ELSE IF flags.requires_sudo /\ config.require_confirmation_for_sudo THEN TRUE
    ELSE IF config.require_confirmation_for_destructive
            /\ (flags.affects_critical_service \/ flags.affects_database
                \/ flags.affects_network) THEN TRUE
    ELSE FALSE

\* safety.rs needs_confirmation
needs_confirmation(flags, config) ==
    IF flags.is_blocked THEN TRUE
    ELSE IF flags.is_destructive /\ config.require_confirmation_for_destructive THEN TRUE
    ELSE IF flags.requires_sudo /\ config.require_confirmation_for_sudo THEN TRUE
    ELSE IF flags.affects_critical_service THEN TRUE
    ELSE IF flags.affects_database THEN TRUE
    ELSE IF flags.affects_network THEN TRUE
    ELSE FALSE

\* SafetyConfig::default(), the fields the classifier and the engine read
DefaultSafetyConfig == [
    require_confirmation_for_destructive |-> TRUE,
    require_confirmation_for_sudo |-> TRUE,
    allow_ai_to_execute_sudo |-> FALSE,
    blocked_patterns |-> DefaultBlockedPatterns,
    protected_paths |-> DefaultProtectedPaths
]

(***************************************************************************)
(* execution_engine.rs: the values the engine works on.                    *)
(***************************************************************************)
\* ai_orchestrator.rs Step.  The description and the AI's own is_destructive and
\* requires_sudo hints are read by display_plan alone and are left out.
MkStep(id, cmd, confirm, dir) ==
    [id |-> id, shell_command |-> cmd, needs_confirmation |-> confirm,
     working_directory |-> dir]

\* Result<Vec<StepResult>, ExecutionError>; NoReturn while execute is running
NoReturn == [tag |-> "Running"]
Ok(rs) == [tag |-> "Ok", results |-> rs]
Err(e) == [tag |-> "Err", error |-> e]
Cancelled == [kind |-> "Cancelled"]
Blocked(cmd) == [kind |-> "Blocked", command |-> cmd]
StepFailed(id) == [kind |-> "StepFailed", step |-> id, reason |-> "User aborted"]
CommandFailed == [kind |-> "CommandFailed"]

(***************************************************************************)
(* The lines read_line can deliver at each prompt ("" is end of input),    *)
(* and how each prompt reads its line.                                     *)
(***************************************************************************)
ConfirmationLines == {"y\n", "\n", "", "e\n", "n\n", " No \n", "s\n", "x\n"}
DangerousLines == {" YES \n", "y\n", "\n", ""}
FailureLines == {"c\n", "\n", "r\n", "a\n", "x\n"}
EditLines == {"\n", "e\n", "s\n", "q\n", "x\n"}
NewCommandLines == {"\n", "  \n", " rm -rf / \n", "echo ok\n"}

\* prompt_confirmation with the "n" and "s" arms exchanged
UserResponseSwapped(line) ==
    LET a == to_lowercase(trim(line))
    IN  CASE a \in {"y", "yes", ""} -> "Accept"
          [] a \in {"e", "edit"}    -> "Edit"
          [] a \in {"n", "no"}      -> "Skip"
          [] a \in {"s", "skip"}    -> "Reject"
          [] OTHER                  -> "Invalid"

\* prompt_confirmation: the decision for a line, "Invalid" when it re-prompts
UserResponse(line) ==
    LET a == to_lowercase(trim(line))
    IN  CASE a \in {"y", "yes", ""} -> "Accept"
          [] a \in {"e", "edit"}    -> "Edit"
          [] a \in {"n", "no"}      -> "Reject"
          [] a \in {"s", "skip"}    -> "Skip"
          [] OTHER                  -> "Invalid"

\* confirm_dangerous_step taking any answer that starts with "y"
DangerConfirmedLoose(line) == starts_with(to_lowercase(trim(line)), "y")

\* confirm_dangerous_step: Ok(input.trim().to_lowercase() == "yes")
DangerConfirmed(line) == to_lowercase(trim(line)) = "yes"

\* prompt_failure_action with "a" in the Continue arm
FailureActionNoAbort(line) ==
    LET a == to_lowercase(trim(line))
    IN  CASE a \in {"c", "continue", "", "a", "abort"} -> "Continue"
          [] a \in {"r", "retry"}                      -> "Retry"
          [] OTHER                                     -> "Invalid"

\* prompt_failure_action: the decision for a line, "Invalid" when it re-prompts
FailureAction(line) ==
    LET a == to_lowercase(trim(line))
    IN  CASE a \in {"c", "continue", ""} -> "Continue"
          [] a \in {"r", "retry"}        -> "Retry"
          [] a \in {"a", "abort"}        -> "Abort"
          [] OTHER                       -> "Invalid"

\* edit_steps without its "q" arm: the answer falls to the `_` arm
EditChoiceNoQuit(line) ==
    LET a == to_lowercase(trim(line))
    IN  CASE a \in {"", "k", "keep"} -> "Keep"
          [] a \in {"e", "edit"}     -> "Edit"
          [] a \in {"s", "skip"}     -> "Skip"
          [] OTHER                   -> "Keep"

\* edit_steps: the decision for a line at the [Enter/e/s/q] prompt
EditChoice(line) ==
    LET a == to_lowercase(trim(line))
    IN  CASE a \in {"", "k", "keep"} -> "Keep"
          [] a \in {"e", "edit"}     -> "Edit"
          [] a \in {"s", "skip"}     -> "Skip"
          [] a \in {"q", "quit"}     -> "Quit"
          [] OTHER                   -> "Keep"

\* the "e" arm without its `if !new_cmd.is_empty()` test
EditedStepAlways(step, line) == [step EXCEPT !.shell_command = trim(line)]

\* edit_steps, the "e" arm: the step the replacement line leaves
EditedStep(step, line) ==
    LET new_cmd == trim(line)
    IN  IF ~is_empty(new_cmd) THEN [step EXCEPT !.shell_command = new_cmd] ELSE step

\* needs_extra_confirmation
needs_extra_confirmation(flags, step, config) ==
    IF step.needs_confirmation THEN TRUE ELSE needs_confirmation(flags, config)

(***************************************************************************)
(* What running `sh -c <command>` can give execute_step: the process ends  *)
(* with an exit status or is ended by a signal (no exit status), with its  *)
(* captured output; or it cannot be spawned.                               *)
(***************************************************************************)
ProcessOutputs == {
    [code |-> Some(0), stdout |-> "ok\n", stderr |-> ""],
    [code |-> Some(1), stdout |-> "", stderr |-> "error\n"],
    [code |-> None, stdout |-> "", stderr |-> ""]
}

\* the StepResult execute_step builds from a finished process
StepResultOf(step, out) ==
    [step_id |-> step.id,
     command |-> step.shell_command,
     exit_code |-> IF out.code = None THEN -1 ELSE out.code[1],
     stdout |-> out.stdout,
     stderr |-> out.stderr,
     success |-> out.code = Some(0)]

(***************************************************************************)
(* The inputs of one ExecutionEngine::execute call.                        *)
(***************************************************************************)
MaxSteps == 2

\* the animation threads one Spinner is let spawn
MaxSpawns == 2

StepCommands == {"echo ok", "rm -rf /", "sudo apt update", "iptables -F",
                 "systemctl restart sshd", "DROP TABLE users"}

\* <<shell_command, needs_confirmation>> of the steps an action may carry
StepVariants ==
    {<<c, FALSE>> : c \in StepCommands} \cup {<<"echo ok", TRUE>>}

\* Step ids as the AI numbers them: "1", "2", ...
StepId(k) == Char(Digits, k + 1)

\* the step lists of at most MaxSteps steps drawn from `variants`
StepLists(variants) ==
    UNION {{[k \in 1..n |-> MkStep(StepId(k), f[k][1], f[k][2], None)] :
                f \in [1..n -> variants]} : n \in 0..MaxSteps}

\* CommandSequence and PlanAndCommands take the same arm of execute; the second
\* is drawn with the step lists of at most one step
Actions(variants) ==
    [kind : {"AnswerOnly", "CommandSequence"}, steps : StepLists(variants)]
    \cup [kind : {"PlanAndCommands"},
          steps : {l \in StepLists(variants) : Len(l) <= 1}]

\* the safety policies: every setting of the three toggles, the default lists
SafetyConfigs ==
    {[DefaultSafetyConfig EXCEPT
        !.require_confirmation_for_destructive = d,
        !.require_confirmation_for_sudo = s,
        !.allow_ai_to_execute_sudo = a] : d, s, a \in BOOLEAN}

\* the default policy, and the one with every toggle the other way
PermissiveSafetyConfig ==
    [DefaultSafetyConfig EXCEPT
        !.require_confirmation_for_destructive = FALSE,
        !.require_confirmation_for_sudo = FALSE,
        !.allow_ai_to_execute_sudo = TRUE]

\* the steps whose handling depends on the policy's toggles
PolicyVariants == {<<c, FALSE>> : c \in {"echo ok", "sudo apt update", "iptables -F"}}

\* The calls of the model: every action under the default and the permissive
\* policy, and the actions made of policy-dependent steps under every policy.
Calls ==
    (Actions(StepVariants) \X {DefaultSafetyConfig, PermissiveSafetyConfig})
    \cup (Actions(PolicyVariants) \X SafetyConfigs)

\* every command a step can carry when the loop reaches it
EngineCommands == StepCommands \cup {trim(l) : l \in NewCommandLines}

\* safety::analyze_command(&step.shell_command, &self.config.safety), tabulated
\* once over the commands and policies of the model
Analysis == [cmd \in EngineCommands, cfg \in SafetyConfigs |-> analyze_command(cmd, cfg)]

VARIABLES
    action,          \* the AiAction passed to execute
    safety_config,   \* self.config.safety
    pc,              \* where execute is
    input,           \* the line read_line has delivered to the prompt, if any
    edited_steps,    \* edit_steps: the list built so far
    edit_index,      \* edit_steps: the step being offered
    kept_original,   \* edit_steps: the steps told "Kept original" so far
    steps_to_run,    \* execute_commands: the list the loop runs
    i,               \* execute_commands: the loop position (1-based)
    results,         \* execute_commands: the StepResults so far
    ret,             \* what execute has returned
    last_command,    \* self.last_command
    last_exit_code,  \* self.last_exit_code
    last_stderr,     \* self.last_stderr
    cwd,             \* the process's current directory
    spawned,         \* history: the processes run, as <<loop position, command>>
    confirmed,       \* history: the loop positions answered yes at the warning prompt
    analyzed,        \* history: what the loop gave analyze_command, as <<loop position, command>>
    command,         \* safety.rs called on its own: the command given
    returned_flags,  \* safety.rs called on its own: the SafetyFlags returned
    typed,           \* the session: the line the user has typed
    ai_mode,         \* the session: ShellRunner.ai_mode
    routed,          \* input_router.rs called on its own: what route_input returned
    is_ai,           \* input_router.rs called on its own: what is_ai_command returned
    received,        \* the session: the route handle_ai_command obtained for the line
    confirmation_needed,  \* needs_confirmation called on its own: what it returned
    parent_env,      \* setup_environment: the variables of the process, as <<name, value>>
    child_env,       \* setup_environment: the variables the CommandBuilder holds
    session,         \* ShellRunner::run: where the main thread is
    raw_mode,        \* the terminal is in raw mode
    orchestrator_available,  \* self.ai_orchestrator is Some
    stdin_eof,       \* stdin has returned Ok(0) or an error
    reads,           \* the number of reads of stdin that returned data
    data,            \* run: the bytes of the read being processed
    byte_index,      \* run: the position of the for loop in data (1-based)
    line_buf,        \* run: line_buf
    pty_written,     \* the bytes written to the PTY, in order
    unintercepted,   \* history: the bytes read, less the CR/LF of the intercepted lines
    outcome,         \* history: how the handler entered last has ended
    running,         \* the flag shared with the output thread
    output_thread,   \* where the output thread is
    child,           \* the child shell
    spinner,         \* spinner.rs: the Spinner's running flag, handle and style
    animation,       \* spinner.rs: the animation threads spawned, in order
    spinner_call,    \* spinner.rs: the call on the Spinner being made or made last
    content,         \* ai_orchestrator.rs: the text the AI has answered with
    parsed           \* ai_orchestrator.rs: what parse_ai_response returned for it

vars == <<action, safety_config, pc, input, edited_steps, edit_index, kept_original, steps_to_run, i,
          results, ret, last_command, last_exit_code, last_stderr, cwd, spawned,
          confirmed, analyzed, command, returned_flags, typed, ai_mode, routed, is_ai, received,
          confirmation_needed, parent_env, child_env, session, raw_mode,
          orchestrator_available, stdin_eof, reads, data, byte_index, line_buf,
          pty_written, unintercepted, outcome, running, output_thread, child,
          spinner, animation, spinner_call, content, parsed>>

memory == <<last_command, last_exit_code, last_stderr>>
locals == <<edited_steps, edit_index, kept_original, steps_to_run, i, results>>
history == <<spawned, confirmed, analyzed>>
classifier == <<command, returned_flags>>
router == <<typed, ai_mode, routed, is_ai, received>>
spinners == <<spinner, animation, spinner_call>>
parsing == <<content, parsed>>
calls == <<confirmation_needed, parent_env, child_env, spinners, parsing>>
input_loop == <<reads, data, byte_index, line_buf, pty_written, unintercepted>>
threads == <<running, output_thread, child>>
terminal == <<session, raw_mode, orchestrator_available, stdin_eof, outcome, input_loop, threads>>

PromptPcs == {"prompt_confirmation", "edit_steps", "edit_new_command",
              "confirm_dangerous_step", "prompt_failure_action"}

LinesAt(p) ==
    CASE p = "prompt_confirmation"    -> ConfirmationLines
      [] p = "edit_steps"             -> EditLines
      [] p = "edit_new_command"       -> NewCommandLines
      [] p = "confirm_dangerous_step" -> DangerousLines
      [] p = "prompt_failure_action"  -> FailureLines

\* no Spinner has been made
SpinnerIdle ==
    /\ spinner = None
    /\ animation = <<>>
    /\ spinner_call = None

\* no answer of the AI is being parsed
ParsingIdle ==
    /\ content = None
    /\ parsed = None

\* no function is being called on its own
CallsIdle ==
    /\ confirmation_needed = None
    /\ parent_env = {}
    /\ child_env = None
    /\ SpinnerIdle
    /\ ParsingIdle

\* no session is running
TerminalIdle ==
    /\ session = "none"
    /\ raw_mode = FALSE
    /\ orchestrator_available = FALSE
    /\ stdin_eof = FALSE
    /\ reads = 0
    /\ data = <<>>
    /\ byte_index = 1
    /\ line_buf = ""
    /\ pty_written = <<>>
    /\ unintercepted = <<>>
    /\ outcome = "none"
    /\ running = FALSE
    /\ output_thread = "none"
    /\ child = "none"

\* no line is being routed
RouterIdle ==
    /\ typed = ""
    /\ ai_mode = "Assist"
    /\ routed = None
    /\ is_ai = None
    /\ received = None

\* ExecutionEngine::new, and the arguments of the execute call
Init ==
    /\ \E call \in Calls : action = call[1] /\ safety_config = call[2]
    /\ pc = "execute"
    /\ input = None
    /\ edited_steps = <<>>
    /\ edit_index = 1
    /\ kept_original = {}
    /\ steps_to_run = <<>>
    /\ i = 1
    /\ results = <<>>
    /\ ret = NoReturn
    /\ last_command = None
    /\ last_exit_code = None
    /\ last_stderr = None
    /\ cwd = "/"
    /\ spawned = <<>>
    /\ confirmed = {}
    /\ analyzed = <<>>
    /\ command = None
    /\ returned_flags = None
    /\ RouterIdle
    /\ CallsIdle
    /\ TerminalIdle

\* `return r` out of execute
Return(r) ==
    /\ ret' = r
    /\ pc' = "done"
    /\ UNCHANGED input

\* execute without the match on action.kind
ExecuteAnyKind ==
    /\ pc = "execute"
    /\ IF action.steps = <<>>
       THEN Return(Ok(<<>>))
       ELSE /\ pc' = "prompt_confirmation"
            /\ UNCHANGED <<input, ret>>
    /\ UNCHANGED <<classifier, router, calls, terminal, action, safety_config, locals, memory, cwd, history>>

\* execute, and execute_commands up to its first prompt
Execute ==
    /\ pc = "execute"
    /\ IF action.kind = "AnswerOnly" \/ action.steps = <<>>
       THEN Return(Ok(<<>>))
       ELSE /\ pc' = "prompt_confirmation"
            /\ UNCHANGED <<input, ret>>
    /\ UNCHANGED <<classifier, router, calls, terminal, action, safety_config, locals, memory, cwd, history>>

\* io::stdin().read_line(&mut input) at a prompt delivers a line
ReadLine ==
    /\ pc \in PromptPcs
    /\ input = None
    /\ \E line \in LinesAt(pc) : input' = Some(line)
    /\ UNCHANGED <<classifier, router, calls, terminal, action, safety_config, pc, locals, ret, memory, cwd, history>>

\* flush or read_line fails at a prompt: `?` returns CommandFailed
ReadError ==
    /\ pc \in PromptPcs
    /\ input = None
    /\ Return(Err(CommandFailed))
    /\ UNCHANGED <<classifier, router, calls, terminal, action, safety_config, locals, memory, cwd, history>>

\* prompt_confirmation has its line; the match of execute_commands on the response
PromptConfirmation ==
    /\ pc = "prompt_confirmation"
    /\ input # None
    /\ LET response == UserResponse(input[1])
       IN  CASE response = "Reject" ->
                  /\ Return(Err(Cancelled))
                  /\ UNCHANGED locals
             [] response = "Skip" ->
                  /\ Return(Ok(<<>>))
                  /\ UNCHANGED locals
             [] response = "Edit" ->
                  /\ pc' = "edit_steps"
                  /\ input' = None
                  /\ edited_steps' = <<>>
                  /\ edit_index' = 1
                  /\ kept_original' = {}
                  /\ UNCHANGED <<steps_to_run, i, results, ret>>
             [] response = "Accept" ->
                  /\ pc' = "loop"
                  /\ input' = None
                  /\ steps_to_run' = action.steps
                  /\ i' = 1
                  /\ results' = <<>>
                  /\ UNCHANGED <<edited_steps, edit_index, kept_original, ret>>
             [] response = "Invalid" ->
                  /\ input' = None          \* self.prompt_confirmation()
                  /\ UNCHANGED <<pc, locals, ret>>
    /\ UNCHANGED <<classifier, router, calls, terminal, action, safety_config, memory, cwd, history>>

\* edit_steps without the `if edited_steps.is_empty()` test before its return
EditAdvanceNoEmptyTest(edited) ==
    IF edit_index < Len(action.steps)
    THEN /\ pc' = "edit_steps"
         /\ input' = None
         /\ edit_index' = edit_index + 1
         /\ edited_steps' = edited
         /\ UNCHANGED <<steps_to_run, i, results, ret>>
    ELSE /\ pc' = "loop"
         /\ input' = None
         /\ edited_steps' = <<>>
         /\ edit_index' = 1
         /\ steps_to_run' = edited
         /\ i' = 1
         /\ results' = <<>>
         /\ UNCHANGED ret

\* edit_steps after the step at edit_index has been dealt with, `edited` being
\* the list so far: the next step is offered, or the function returns
EditAdvance(edited) ==
    IF edit_index < Len(action.steps)
    THEN /\ pc' = "edit_steps"
         /\ input' = None
         /\ edit_index' = edit_index + 1
         /\ edited_steps' = edited
         /\ UNCHANGED <<steps_to_run, i, results, ret>>
    ELSE IF edited = <<>>
    THEN /\ Return(Err(Cancelled))
         /\ edited_steps' = edited
         /\ UNCHANGED <<edit_index, steps_to_run, i, results>>
    ELSE /\ pc' = "loop"                \* Ok(edited_steps): the list is moved out
         /\ input' = None
         /\ edited_steps' = <<>>
         /\ edit_index' = 1
         /\ steps_to_run' = edited
         /\ i' = 1
         /\ results' = <<>>
         /\ UNCHANGED ret

\* the steps told "Kept original" after a step has been dealt with; the record
\* goes with the function's locals when it returns its list
KeptOriginal(kept) == kept_original' = IF pc' = "loop" THEN {} ELSE kept

\* edit_steps has its line at the [Enter/e/s/q] prompt of a step
EditSteps ==
    /\ pc = "edit_steps"
    /\ input # None
    /\ LET step == action.steps[edit_index]
           choice == EditChoice(input[1])
       IN  CASE choice = "Keep" ->
                  /\ EditAdvance(Append(edited_steps, step))
                  /\ KeptOriginal(kept_original)
             [] choice = "Skip" ->
                  /\ EditAdvance(edited_steps)
                  /\ KeptOriginal(kept_original)
             [] choice = "Quit" ->
                  /\ Return(Err(Cancelled))
                  /\ UNCHANGED locals
             [] choice = "Edit" ->
                  /\ pc' = "edit_new_command"
                  /\ input' = None
                  /\ UNCHANGED <<locals, ret>>
    /\ UNCHANGED <<classifier, router, calls, terminal, action, safety_config, memory, cwd, history>>

\* edit_steps has its line at the "New command:" prompt
EditNewCommand ==
    /\ pc = "edit_new_command"
    /\ input # None
    /\ EditAdvance(Append(edited_steps, EditedStep(action.steps[edit_index], input[1])))
    /\ KeptOriginal(IF is_empty(trim(input[1]))
                    THEN kept_original \cup {edit_index}    \* "Kept original"
                    ELSE kept_original)                     \* "Updated"
    /\ UNCHANGED <<classifier, router, calls, terminal, action, safety_config, memory, cwd, history>>

\* the loop taking the same step again
NextStepSamePosition ==
    /\ pc' = "loop"
    /\ input' = None
    /\ i' = i

\* `continue`: the loop goes to its next step
NextStep ==
    /\ pc' = "loop"
    /\ input' = None
    /\ i' = i + 1

\* the sudo policy reading require_confirmation_for_sudo in place of
\* allow_ai_to_execute_sudo
SudoPolicyWrongToggle(flags) ==
    IF flags.requires_sudo /\ ~safety_config.require_confirmation_for_sudo
    THEN NextStep
    ELSE /\ pc' = "execute_step"
         /\ input' = None
         /\ i' = i

\* The loop body after the blocked and confirmation checks: the sudo policy
\* withholds the step, or the step goes to execute_step.
SudoPolicy(flags) ==
    IF flags.requires_sudo /\ ~safety_config.allow_ai_to_execute_sudo
    THEN NextStep
    ELSE /\ pc' = "execute_step"
         /\ input' = None
         /\ i' = i

\* the loop analysing the command the AI proposed for the step in place of
\* the command the step now carries
analyze_step_as_proposed(step) ==
    LET proposed == CHOOSE s \in {action.steps[k] : k \in DOMAIN action.steps} : s.id = step.id
    IN  [command |-> proposed.shell_command,
         flags |-> Analysis[proposed.shell_command, safety_config]]

\* `let flags = safety::analyze_command(&step.shell_command, &self.config.safety)`:
\* the command given and the flags returned
analyze_step(step) ==
    [command |-> step.shell_command,
     flags |-> Analysis[step.shell_command, safety_config]]

\* the head of the loop without its `if flags.is_blocked` arm
LoopStepUnblocked ==
    /\ pc = "loop"
    /\ IF i > Len(steps_to_run)
       THEN /\ Return(Ok(results))
            /\ UNCHANGED <<i, analyzed>>
       ELSE LET step == steps_to_run[i]
                flags == analyze_step(step).flags
            IN  /\ analyzed' = Append(analyzed, <<i, analyze_step(step).command>>)
                /\ IF needs_extra_confirmation(flags, step, safety_config)
                   THEN /\ pc' = "confirm_dangerous_step"
                        /\ UNCHANGED <<input, i, ret>>
                   ELSE /\ SudoPolicy(flags)
                        /\ UNCHANGED ret
    /\ UNCHANGED <<classifier, router, calls, terminal, action, safety_config, edited_steps, edit_index, kept_original, steps_to_run,
                   results, memory, cwd, spawned, confirmed>>

\* The head of the loop: the loop ends, or the step at position i is analysed.
LoopStep ==
    /\ pc = "loop"
    /\ IF i > Len(steps_to_run)
       THEN /\ Return(Ok(results))
            /\ UNCHANGED <<i, analyzed>>
       ELSE LET step == steps_to_run[i]
                flags == analyze_step(step).flags
            IN  /\ analyzed' = Append(analyzed, <<i, analyze_step(step).command>>)
                /\ IF flags.is_blocked
                   THEN /\ Return(Err(Blocked(step.shell_command)))
                        /\ UNCHANGED i
                   ELSE IF needs_extra_confirmation(flags, step, safety_config)
                   THEN /\ pc' = "confirm_dangerous_step"
                        /\ UNCHANGED <<input, i, ret>>
                   ELSE /\ SudoPolicy(flags)
                        /\ UNCHANGED ret
    /\ UNCHANGED <<classifier, router, calls, terminal, action, safety_config, edited_steps, edit_index, kept_original, steps_to_run, results,
                   memory, cwd, spawned, confirmed>>

\* confirm_dangerous_step has its line
ConfirmDangerousStep ==
    /\ pc = "confirm_dangerous_step"
    /\ input # None
    /\ LET step == steps_to_run[i]
           flags == Analysis[step.shell_command, safety_config]
       IN  IF DangerConfirmed(input[1])
           THEN /\ SudoPolicy(flags)
                /\ confirmed' = confirmed \cup {i}
           ELSE /\ NextStep                     \* "Step skipped."
                /\ UNCHANGED confirmed
    /\ UNCHANGED <<classifier, router, calls, terminal, action, safety_config, edited_steps, edit_index, kept_original, steps_to_run, results,
                   ret, memory, cwd, spawned, analyzed>>

\* std::env::set_current_dir(dir) succeeds for a directory that exists
ExistingDirs == {"/", "/tmp"}

\* execute_step(step): the process cannot be spawned (out = None) or ends with
\* `out`.  Gives the new engine memory, the new current directory and the
\* function's result.
execute_step(step, out) ==
    LET original_dir == cwd
        dir == step.working_directory
        entered == IF dir # None /\ dir[1] \in ExistingDirs THEN dir[1] ELSE cwd
    IN  IF out = None
        THEN [last_command |-> Some(step.shell_command),
              last_exit_code |-> last_exit_code,
              last_stderr |-> last_stderr,
              cwd |-> entered,
              result |-> Err(CommandFailed)]
        ELSE LET r == StepResultOf(step, out[1])
             IN  [last_command |-> Some(step.shell_command),
                  last_exit_code |-> Some(r.exit_code),
                  last_stderr |-> IF ~is_empty(r.stderr) THEN Some(r.stderr)
                                  ELSE last_stderr,
                  cwd |-> original_dir,
                  result |-> Ok(r)]

\* the effects of one execute_step call on the engine and on the history
Executed(e) ==
    /\ last_command' = e.last_command
    /\ last_exit_code' = e.last_exit_code
    /\ last_stderr' = e.last_stderr
    /\ cwd' = e.cwd
    /\ spawned' = IF e.result.tag = "Ok"
                  THEN Append(spawned, <<i, steps_to_run[i].shell_command>>)
                  ELSE spawned

\* the result replaces the list instead of being pushed
PushResultOverwrites(r) == results' = <<r>>

\* results.push(result)
PushResult(r) == results' = Append(results, r)

\* `let result = self.execute_step(step).await?; results.push(result);` and the
\* test of its success
ExecuteStep ==
    /\ pc = "execute_step"
    /\ \E out \in {None} \cup {Some(o) : o \in ProcessOutputs} :
         LET e == execute_step(steps_to_run[i], out)
         IN  /\ Executed(e)
             /\ IF e.result.tag = "Err"
                THEN /\ Return(e.result)
                     /\ UNCHANGED <<i, results>>
                ELSE /\ PushResult(e.result.results)
                     /\ IF e.result.results.success
                        THEN /\ NextStep
                             /\ UNCHANGED ret
                        ELSE /\ pc' = "prompt_failure_action"
                             /\ UNCHANGED <<input, i, ret>>
    /\ UNCHANGED <<classifier, router, calls, terminal, action, safety_config, edited_steps, edit_index, kept_original, steps_to_run, confirmed, analyzed>>

\* prompt_failure_action has its line; the match on the response
PromptFailureAction ==
    /\ pc = "prompt_failure_action"
    /\ input # None
    /\ LET response == FailureAction(input[1])
       IN  CASE response = "Continue" ->
                  /\ NextStep
                  /\ UNCHANGED ret
             [] response = "Retry" ->
                  /\ pc' = "retry_step"
                  /\ input' = None
                  /\ UNCHANGED <<i, ret>>
             [] response = "Abort" ->
                  /\ Return(Err(StepFailed(steps_to_run[i].id)))
                  /\ UNCHANGED i
             [] response = "Invalid" ->
                  /\ input' = None          \* self.prompt_failure_action()
                  /\ UNCHANGED <<pc, i, ret>>
    /\ UNCHANGED <<classifier, router, calls, terminal, action, safety_config, edited_steps, edit_index, kept_original, steps_to_run, results,
                   memory, cwd, history>>

\* FailureAction::Retry asking again when the retry fails too
RetryStepAsksAgain ==
    /\ pc = "retry_step"
    /\ \E out \in {None} \cup {Some(o) : o \in ProcessOutputs} :
         LET e == execute_step(steps_to_run[i], out)
         IN  /\ Executed(e)
             /\ IF e.result.tag = "Err"
                THEN /\ Return(e.result)
                     /\ UNCHANGED <<i, results>>
                ELSE /\ PushResult(e.result.results)
                     /\ IF e.result.results.success
                        THEN /\ NextStep
                             /\ UNCHANGED ret
                        ELSE /\ pc' = "prompt_failure_action"
                             /\ UNCHANGED <<input, i, ret>>
    /\ UNCHANGED <<classifier, router, calls, terminal, action, safety_config, edited_steps, edit_index, kept_original,
                   steps_to_run, confirmed, analyzed>>

\* FailureAction::Retry: the same step is executed again and its result pushed
RetryStep ==
    /\ pc = "retry_step"
    /\ \E out \in {None} \cup {Some(o) : o \in ProcessOutputs} :
         LET e == execute_step(steps_to_run[i], out)
         IN  /\ Executed(e)
             /\ IF e.result.tag = "Err"
                THEN /\ Return(e.result)
                     /\ UNCHANGED <<i, results>>
                ELSE /\ PushResult(e.result.results)
                     /\ NextStep
                     /\ UNCHANGED ret
    /\ UNCHANGED <<classifier, router, calls, terminal, action, safety_config, edited_steps, edit_index, kept_original, steps_to_run, confirmed, analyzed>>

Next ==
    \/ Execute
    \/ ReadLine
    \/ ReadError
    \/ PromptConfirmation
    \/ EditSteps
    \/ EditNewCommand
    \/ LoopStep
    \/ ConfirmDangerousStep
    \/ ExecuteStep
    \/ PromptFailureAction
    \/ RetryStep

Spec == Init /\ [][Next]_vars

(***************************************************************************)
(* execute on steps that name a working directory: one that exists, one    *)
(* that does not, and none.                                                *)
(***************************************************************************)
\* <<needs_confirmation, working_directory>> of the steps, all of them
\* `echo ok`
DirectoryVariants ==
    {<<FALSE, None>>, <<FALSE, Some("/tmp")>>, <<FALSE, Some("/nonexistent")>>,
     <<TRUE, Some("/tmp")>>}

\* the CommandSequence actions of at most MaxSteps such steps
DirectoryActions ==
    UNION {{[kind |-> "CommandSequence",
             steps |-> [k \in 1..n |-> MkStep(StepId(k), "echo ok", f[k][1], f[k][2])]] :
                f \in [1..n -> DirectoryVariants]} : n \in 0..MaxSteps}

\* ExecutionEngine::new, and the arguments of the execute call
DirectoryInit ==
    /\ action \in DirectoryActions
    /\ safety_config = DefaultSafetyConfig
    /\ pc = "execute"
    /\ input = None
    /\ edited_steps = <<>>
    /\ edit_index = 1
    /\ kept_original = {}
    /\ steps_to_run = <<>>
    /\ i = 1
    /\ results = <<>>
    /\ ret = NoReturn
    /\ last_command = None
    /\ last_exit_code = None
    /\ last_stderr = None
    /\ cwd = "/"
    /\ spawned = <<>>
    /\ confirmed = {}
    /\ analyzed = <<>>
    /\ command = None
    /\ returned_flags = None
    /\ RouterIdle
    /\ CallsIdle
    /\ TerminalIdle

SpecDirectory == DirectoryInit /\ [][Next]_vars

(***************************************************************************)
(* safety.rs called on its own: analyze_command on one command under one   *)
(* policy.  The commands are those of the unit tests of safety.rs and of   *)
(* the engine; the policies are the toggle settings over the default       *)
(* lists and blocklists a user may configure, with patterns that do not    *)
(* compile among them.                                                     *)
(***************************************************************************)
SafetyCommands == EngineCommands \cup {
    "rm -rf /*", "rm -rf /tmp/test", "sudo rm -rf /", "ls -la",
    "sudo apt install nginx", "echo hello | sudo tee /etc/hosts",
    "cat /etc/passwd", "mkfs.ext4 /dev/sda", "dd if=/dev/zero of=/dev/sda",
    ":(){ :|:& };:", "systemctl restart sshd", "DROP TABLE users",
    "sudo rm -rf /tmp/test", "vim /etc/passwd", "",
    "sudo iptables -F && cat /etc/passwd /etc/shadow"
}

CustomBlocklists == {
    <<>>,
    <<"echo">>,
    <<"(", "sudo">>,
    <<"[a-", "echo", "sudo">>,
    <<"sudo", "rm\\s+-rf\\s+/\\s*$">>
}

SafetyPolicies ==
    SafetyConfigs
    \cup {[DefaultSafetyConfig EXCEPT !.blocked_patterns = l] : l \in CustomBlocklists}

\* no execute call is in progress
EngineIdle ==
    /\ action = [kind |-> "AnswerOnly", steps |-> <<>>]
    /\ input = None
    /\ edited_steps = <<>>
    /\ edit_index = 1
    /\ kept_original = {}
    /\ steps_to_run = <<>>
    /\ i = 1
    /\ results = <<>>
    /\ ret = NoReturn
    /\ last_command = None
    /\ last_exit_code = None
    /\ last_stderr = None
    /\ cwd = "/"
    /\ spawned = <<>>
    /\ confirmed = {}
    /\ analyzed = <<>>

SafetyInit ==
    /\ command \in {Some(c) : c \in SafetyCommands}
    /\ safety_config \in SafetyPolicies
    /\ returned_flags = None
    /\ pc = "analyze_command"
    /\ EngineIdle
    /\ RouterIdle
    /\ CallsIdle
    /\ TerminalIdle

\* let flags = safety::analyze_command(cmd, config)
AnalyzeCommand ==
    /\ pc = "analyze_command"
    /\ returned_flags' = Some(analyze_command(command[1], safety_config))
    /\ pc' = "done"
    /\ UNCHANGED <<command, router, calls, terminal, action, safety_config, input, locals, ret, memory, cwd, history>>

SafetyNext == AnalyzeCommand

SpecSafety == SafetyInit /\ [][SafetyNext]_vars

(***************************************************************************)
(* needs_confirmation called on its own: on every setting of the flags,    *)
(* under every setting of the policy's toggles.                            *)
(***************************************************************************)
AllFlags ==
    [is_destructive : BOOLEAN, requires_sudo : BOOLEAN,
     affects_critical_service : BOOLEAN, modifies_packages : BOOLEAN,
     modifies_protected_path : BOOLEAN, affects_database : BOOLEAN,
     affects_network : BOOLEAN, is_blocked : BOOLEAN, warnings : {<<>>}]

ConfirmInit ==
    /\ returned_flags \in {Some(f) : f \in AllFlags}
    /\ safety_config \in SafetyConfigs
    /\ command = None
    /\ confirmation_needed = None
    /\ parent_env = {}
    /\ child_env = None
    /\ SpinnerIdle
    /\ ParsingIdle
    /\ pc = "needs_confirmation"
    /\ EngineIdle
    /\ RouterIdle
    /\ TerminalIdle

\* safety::needs_confirmation(&flags, &self.config.safety)
NeedsConfirmation ==
    /\ pc = "needs_confirmation"
    /\ confirmation_needed' = Some(needs_confirmation(returned_flags[1], safety_config))
    /\ pc' = "done"
    /\ UNCHANGED <<classifier, router, parent_env, child_env, spinners, parsing, terminal, action, safety_config,
                   input, locals, ret, memory, cwd, history>>

ConfirmNext == NeedsConfirmation

SpecConfirm == ConfirmInit /\ [][ConfirmNext]_vars

(***************************************************************************)
(* The environment of the child shell (shell.rs): CommandBuilder::new and  *)
(* setup_environment, on the environments made of the names below.  An     *)
(* environment is a set of <<name, value>> with one value for a name.      *)
(***************************************************************************)
EnvNames == {"HOME", "PATH", "TERM", "EDITOR", "BASH_ENV", "OPENAI_API_KEY",
             "GH_TOKEN", "AWS_SECRET_ACCESS_KEY", "LD_PRELOAD", "SSH_AUTH_SOCK"}

\* the value a variable has in the process
ValueOf(key) == "value of " \o key

ParentEnvs == {{<<key, ValueOf(key)>> : key \in names} : names \in SUBSET EnvNames}

\* CommandBuilder::env(key, value)
env_set(envs, key, value) == {e \in envs : e[1] # key} \cup {<<key, value>>}

\* std::env::var(key).is_err()
var_is_err(envs, key) == \A e \in envs : e[1] # key

\* portable_pty's CommandBuilder::new(shell_path): the builder starts from the
\* environment of the process, and the code never calls env_clear
CommandBuilder_new(envs) == envs

PassedNames == {"HOME", "USER", "LOGNAME", "PATH", "LANG", "LC_ALL", "LC_CTYPE", "TERM",
                "EDITOR", "VISUAL", "PAGER", "SHELL", "ZDOTDIR", "BASH_ENV"}

\* the arms of the match of setup_environment that call cmd.env
Passed(key) ==
    \/ key \in PassedNames
    \/ ends_with(key, "_API_KEY")
    \/ ends_with(key, "_TOKEN")

\* setup_environment(&mut cmd), with cmd's variables before the call
setup_environment(cmd, envs) ==
    LET passed   == {e \in envs : Passed(e[1])}
        copied   == {e \in cmd : \A q \in passed : q[1] # e[1]} \cup passed
        termed   == IF var_is_err(envs, "TERM")
                    THEN env_set(copied, "TERM", "xterm-256color")
                    ELSE copied
    IN  env_set(env_set(termed, "AGENTSH", "1"), "AGENTSH_VERSION", "CARGO_PKG_VERSION")

EnvironmentInit ==
    /\ parent_env \in ParentEnvs
    /\ child_env = None
    /\ confirmation_needed = None
    /\ SpinnerIdle
    /\ ParsingIdle
    /\ pc = "spawn"
    /\ safety_config = DefaultSafetyConfig
    /\ command = None
    /\ returned_flags = None
    /\ EngineIdle
    /\ RouterIdle
    /\ TerminalIdle

\* run: CommandBuilder::new(shell_path), setup_environment(&mut cmd), spawn_command(cmd)
SpawnCommand ==
    /\ pc = "spawn"
    /\ child_env' = Some(setup_environment(CommandBuilder_new(parent_env), parent_env))
    /\ pc' = "done"
    /\ UNCHANGED <<classifier, router, confirmation_needed, parent_env, spinners, parsing, terminal, action,
                   safety_config, input, locals, ret, memory, cwd, history>>

EnvironmentNext == SpawnCommand

SpecEnvironment == EnvironmentInit /\ [][EnvironmentNext]_vars

(***************************************************************************)
(* ai_orchestrator.rs: parse_ai_response, on the texts below, and the      *)
(* execute call made with the action it returns (shell.rs:248-251).        *)
(* serde_json::from_str::<AiAction> is given by the documents it accepts:  *)
(* a text is parsed, white space around it aside, when it is one of them.  *)
(***************************************************************************)
\* the fence of a markdown code block, three backquotes; a TLA+ string cannot
\* hold a backquote, and the texts below write ~ for it
Fence == "~~~"

AnswerJson == "{\"kind\": \"answer_only\", \"summary\": \"hi\"}"

QuotedBraceJson == "{\"kind\": \"answer_only\", \"summary\": \"a } b\"}"

SequenceJson ==
    "{\"kind\": \"command_sequence\", \"steps\": [{\"id\": \"1\", "
    \o "\"description\": \"d\", \"shell_command\": \"echo ok\"}]}"

PlanJson ==
    "{\"kind\": \"plan_and_commands\", \"summary\": \"plan\", \"steps\": ["
    \o "{\"id\": \"1\", \"description\": \"d\", \"shell_command\": \"iptables -F\"}, "
    \o "{\"id\": \"2\", \"description\": \"d\", \"shell_command\": \"echo ok\", "
    \o "\"needs_confirmation\": true}]}"

\* Result<AiAction, _>
AiAction(kind, summary, steps) == [kind |-> kind, summary |-> summary, steps |-> steps]

\* serde_json::from_str::<AiAction>(text)
from_str(text) ==
    LET doc == trim(text)
    IN  CASE doc = AnswerJson ->
               Ok(AiAction("AnswerOnly", Some("hi"), <<>>))
          [] doc = QuotedBraceJson ->
               Ok(AiAction("AnswerOnly", Some("a } b"), <<>>))
          [] doc = SequenceJson ->
               Ok(AiAction("CommandSequence", None,
                           <<MkStep("1", "echo ok", FALSE, None)>>))
          [] doc = PlanJson ->
               Ok(AiAction("PlanAndCommands", Some("plan"),
                           <<MkStep("1", "iptables -F", FALSE, None),
                             MkStep("2", "echo ok", TRUE, None)>>))
          [] OTHER -> Err("expected an AiAction")

\* the texts the AI answers with: plain text, an action as JSON, in a
\* markdown block and within prose, and JSON that is no AiAction (a step
\* without its command, an unknown kind, an object cut short, an object cut
\* at a brace inside a string)
Responses == {
    "Just plain text",
    "Run rm -rf / to free space.",
    "",
    AnswerJson,
    SequenceJson,
    "Here's the response:\n" \o Fence \o "json\n" \o PlanJson \o "\n" \o Fence \o "\n",
    "Run this: " \o SequenceJson \o " ok?",
    Fence \o "\n" \o AnswerJson,
    Fence \o "json\nnot json\n" \o Fence,
    "{\"kind\": \"command_sequence\", \"steps\": [{\"id\": \"1\"}]}",
    "{\"kind\": \"run\", \"steps\": []}",
    "x { \"kind\": ",
    "Sure: " \o QuotedBraceJson \o " done"
}

\* str::find: the position (1-based) of the first occurrence at or after
\* `from`, None when there is none
find(text, pattern, from) ==
    LET hits == {pos \in from..(Len(text) - Len(pattern) + 1) :
                    SubSeq(text, pos, pos + Len(pattern) - 1) = pattern}
    IN  IF hits = {} THEN None
        ELSE Some(CHOOSE pos \in hits : \A other \in hits : pos <= other)

\* extract_json_from_markdown, from the k-th of its patterns on
RECURSIVE extract_json_from_markdown(_, _)
extract_json_from_markdown(text, k) ==
    LET patterns == <<Fence \o "json\n", Fence \o "JSON\n", Fence \o "\n">>
    IN  IF k > Len(patterns) THEN None
        ELSE LET opening == find(text, patterns[k], 1)
                 json_start == opening[1] + Len(patterns[k])
                 closing == find(text, Fence, json_start)
             IN  IF opening # None /\ closing # None
                 THEN Some(SubSeq(text, json_start, closing[1] - 1))
                 ELSE extract_json_from_markdown(text, k + 1)

\* extract_json_object, the loop over the characters: depth after the
\* character at position pos, counted from position opening on
Depth(text, opening, pos) ==
    Cardinality({q \in opening..pos : Char(text, q) = "{"})
        - Cardinality({q \in opening..pos : Char(text, q) = "}"})

\* the position of the first brace that brings depth back to 0, None when
\* the text ends before it
ClosingBrace(text, opening) ==
    LET closed == {pos \in opening..Len(text) :
                      Char(text, pos) = "}" /\ Depth(text, opening, pos) = 0}
    IN  IF closed = {} THEN None
        ELSE Some(CHOOSE pos \in closed : \A other \in closed : pos <= other)

\* extract_json_object
extract_json_object(text) ==
    LET opening == find(text, "{", 1)
    IN  IF opening = None THEN None
        ELSE LET closing == ClosingBrace(text, opening[1])
             IN  IF closing # None
                 THEN Some(SubSeq(text, opening[1], closing[1]))
                 ELSE None

\* AiAction::answer_only
answer_only(text) == AiAction("AnswerOnly", Some(text), <<>>)

\* the attempts of parse_ai_response, in order: the text itself, the markdown
\* block, the first object
Attempts(text) ==
    <<Some(text), extract_json_from_markdown(text, 1), extract_json_object(text)>>

\* parse_ai_response returning the error of the last attempt
parse_ai_response_or_error(text) ==
    LET tries == Attempts(text)
        good == {k \in 1..Len(tries) : tries[k] # None /\ from_str(tries[k][1]).tag = "Ok"}
    IN  IF good # {}
        THEN from_str(tries[CHOOSE k \in good : \A q \in good : k <= q][1])
        ELSE Err("Could not parse AI response")

\* parse_ai_response
parse_ai_response(text) ==
    LET tries == Attempts(text)
        good == {k \in 1..Len(tries) : tries[k] # None /\ from_str(tries[k][1]).tag = "Ok"}
    IN  IF good # {}
        THEN from_str(tries[CHOOSE k \in good : \A q \in good : k <= q][1])
        ELSE Ok(answer_only(text))

ParseInit ==
    /\ content \in {Some(text) : text \in Responses}
    /\ parsed = None
    /\ confirmation_needed = None
    /\ parent_env = {}
    /\ child_env = None
    /\ SpinnerIdle
    /\ pc = "parse_ai_response"
    /\ safety_config = DefaultSafetyConfig
    /\ command = None
    /\ returned_flags = None
    /\ EngineIdle
    /\ RouterIdle
    /\ TerminalIdle

\* query: parse_ai_response(&response, &mode); handle_ai_command: an action is
\* given to execute, an error is printed
ParseAiResponse ==
    /\ pc = "parse_ai_response"
    /\ parsed' = Some(parse_ai_response(content[1]))
    /\ IF parsed'[1].tag = "Ok"
       THEN /\ action' = [kind |-> parsed'[1].results.kind, steps |-> parsed'[1].results.steps]
            /\ pc' = "execute"
       ELSE /\ pc' = "done"
            /\ UNCHANGED action
    /\ UNCHANGED <<content, classifier, router, confirmation_needed, parent_env, child_env,
                   spinners, terminal, safety_config, input, locals, ret, memory, cwd, history>>

\* the steps of the execute call
ExecuteParsed ==
    /\ parsed # None
    /\ Next

ParseNext ==
    \/ ParseAiResponse
    \/ ExecuteParsed

SpecParse == ParseInit /\ [][ParseNext]_vars

(***************************************************************************)
(* spinner.rs: one Spinner, the calls of start and stop on it (they take   *)
(* &mut self, so one call is made at a time) and the animation threads it  *)
(* spawns.  A thread is a record of where it is and of its frame_idx,      *)
(* which is kept modulo frames.len(), all the code uses of it.             *)
(***************************************************************************)
SPINNER_FRAMES == 10
DOTS_FRAMES == 4
SIMPLE_FRAMES == 4

SpinnerStyles == {"Braille", "Dots", "Simple"}

\* start: the match on self.style
frames(style) ==
    CASE style = "Braille" -> SPINNER_FRAMES
      [] style = "Dots"    -> DOTS_FRAMES
      [] style = "Simple"  -> SIMPLE_FRAMES

\* Spinner::new(message) and with_style(style)
SpinnerInit ==
    /\ spinner \in {Some([running |-> FALSE, handle |-> None, style |-> st]) :
                        st \in SpinnerStyles}
    /\ animation = <<>>
    /\ spinner_call = Some([at |-> "new", handle |-> None])
    /\ confirmation_needed = None
    /\ parent_env = {}
    /\ child_env = None
    /\ ParsingIdle
    /\ pc = "spinner"
    /\ safety_config = DefaultSafetyConfig
    /\ command = None
    /\ returned_flags = None
    /\ EngineIdle
    /\ RouterIdle
    /\ TerminalIdle

\* no call on the Spinner is under way
Returned == spinner_call[1].at \in {"new", "start", "already_running", "stop"}

already_running_ignored(sp) == FALSE

\* start: self.running.load(Ordering::Relaxed)
already_running(sp) == sp.running

\* Spinner::start
start ==
    /\ Returned
    /\ IF already_running(spinner[1])
       THEN /\ spinner_call' = Some([at |-> "already_running", handle |-> None])
            /\ UNCHANGED <<spinner, animation>>
       ELSE /\ Len(animation) < MaxSpawns
            /\ animation' = Append(animation, [at |-> "loop", frame_idx |-> 0])
            /\ spinner' = Some([spinner[1] EXCEPT !.running = TRUE,
                                                  !.handle = Some(Len(animation) + 1)])
            /\ spinner_call' = Some([at |-> "start", handle |-> None])
    /\ UNCHANGED <<classifier, router, confirmation_needed, parent_env, child_env, parsing, terminal,
                   action, safety_config, pc, input, locals, ret, memory, cwd, history>>

\* Spinner::stop, to the join: the flag is cleared and the handle taken
stop ==
    /\ Returned
    /\ spinner' = Some([spinner[1] EXCEPT !.running = FALSE, !.handle = None])
    /\ spinner_call' = IF spinner[1].handle # None
                       THEN Some([at |-> "join", handle |-> spinner[1].handle])
                       ELSE Some([at |-> "stop", handle |-> None])
    /\ UNCHANGED <<animation, classifier, router, confirmation_needed, parent_env, child_env, parsing,
                   terminal, action, safety_config, pc, input, locals, ret, memory, cwd, history>>

\* stop: handle.join() returns once the thread has ended
JoinAnimation ==
    /\ spinner_call[1].at = "join"
    /\ animation[spinner_call[1].handle[1]].at = "terminated"
    /\ animation' = [animation EXCEPT ![spinner_call[1].handle[1]].at = "joined"]
    /\ spinner_call' = Some([at |-> "stop", handle |-> None])
    /\ UNCHANGED <<spinner, classifier, router, confirmation_needed, parent_env, child_env, parsing,
                   terminal, action, safety_config, pc, input, locals, ret, memory, cwd, history>>

\* the animation thread: while running.load(Ordering::Relaxed)
AnimationLoad(t) ==
    /\ animation[t].at = "loop"
    /\ animation' = [animation EXCEPT ![t].at = IF spinner[1].running THEN "frame" ELSE "clear"]
    /\ UNCHANGED <<spinner, spinner_call, classifier, router, confirmation_needed, parent_env,
                   child_env, parsing, terminal, action, safety_config, pc, input, locals, ret, memory, cwd,
                   history>>

\* the animation thread: one frame is written, frame_idx += 1, sleep
AnimationFrame(t) ==
    /\ animation[t].at = "frame"
    /\ animation' = [animation EXCEPT
                        ![t].at = "loop",
                        ![t].frame_idx = (@ + 1) % frames(spinner[1].style)]
    /\ UNCHANGED <<spinner, spinner_call, classifier, router, confirmation_needed, parent_env,
                   child_env, parsing, terminal, action, safety_config, pc, input, locals, ret, memory, cwd,
                   history>>

\* the animation thread: the line is cleared and the closure returns
AnimationClear(t) ==
    /\ animation[t].at = "clear"
    /\ animation' = [animation EXCEPT ![t].at = "terminated"]
    /\ UNCHANGED <<spinner, spinner_call, classifier, router, confirmation_needed, parent_env,
                   child_env, parsing, terminal, action, safety_config, pc, input, locals, ret, memory, cwd,
                   history>>

SpinnerNext ==
    \/ start
    \/ stop
    \/ JoinAnimation
    \/ \E t \in 1..Len(animation) : AnimationLoad(t)
    \/ \E t \in 1..Len(animation) : AnimationFrame(t)
    \/ \E t \in 1..Len(animation) : AnimationClear(t)

SpecSpinner == SpinnerInit /\ [][SpinnerNext]_vars

(***************************************************************************)
(* input_router.rs: the patterns, the routes, route_input and              *)
(* is_ai_command.                                                          *)
(***************************************************************************)
AiWord == <<Bol, Opt(Lit("@")), Lit("ai"), Plus(Sp)>>        \* ^@?ai\s+
Quote == Set({"\"", "'"})                                    \* ["']
QuotedRest == <<Opt(Quote), LazyGroup(Plus(Dot)), Opt(Quote), Star(Sp), Eol>>  \* ["']?(.+?)["']?\s*$

AI_PREFIX   == Cat(<<Bol, Group(Cat(<<Opt(Lit("@")), Lit("ai"), Plus(Sp)>>))>>)  \* ^(@?ai\s+)
AI_RUN      == Cat(AiWord \o <<Lit("run"), Plus(Sp)>> \o QuotedRest)      \* ^@?ai\s+run\s+["']?(.+?)["']?\s*$
AI_EXPLAIN  == Cat(AiWord \o <<Lit("explain"), Plus(Sp)>> \o QuotedRest)  \* ^@?ai\s+explain\s+['"]?(.+?)['"]?\s*$
AI_DO       == Cat(AiWord \o <<Lit("do"), Plus(Sp)>> \o QuotedRest)       \* ^@?ai\s+do\s+["']?(.+?)["']?\s*$
AI_FIX      == Cat(AiWord \o <<Lit("fix"), Star(Sp), Eol>>)               \* ^@?ai\s+fix\s*$
AI_SYSINFO  == Cat(AiWord \o <<Lit("sysinfo"), Star(Sp), Eol>>)           \* ^@?ai\s+sysinfo\s*$
AI_SERVICES == Cat(AiWord \o <<Lit("services"), Star(Sp), Eol>>)          \* ^@?ai\s+services\s*$
AI_PACKAGES == Cat(AiWord \o <<Lit("packages"), Star(Sp), Eol>>)          \* ^@?ai\s+packages\s*$
AI_MODE     == Cat(AiWord \o <<Lit("mode"), Plus(Sp), Group(Plus(Word)), Star(Sp), Eol>>)  \* ^@?ai\s+mode\s+(\w+)\s*$
AI_HELP     == Cat(AiWord \o <<Group(Alt(<<Lit("help"), Lit("?")>>)), Star(Sp), Eol>>)     \* ^@?ai\s+(help|\?)\s*$
AI_HISTORY  == Cat(AiWord \o <<Lit("history"), Star(Sp), Eol>>)           \* ^@?ai\s+history\s*$

\* ai_orchestrator.rs QueryMode
General == [mode |-> "General"]
Run == [mode |-> "Run"]
Explain(cmd) == [mode |-> "Explain", command |-> cmd]
Fix == [mode |-> "Fix"]
Do == [mode |-> "Do"]
SysInfo == [mode |-> "SysInfo"]

\* InternalCommand
SetMode(name) == [cmd |-> "SetMode", mode |-> name]
Help == [cmd |-> "Help"]
History == [cmd |-> "History"]

\* the mutant of Shell: the route carries the trimmed line
ShellTrimmed(text) == [route |-> "Shell", line |-> trim(text)]

\* InputRoute, with AiCommand { mode, query } as the payload of Ai
Shell(text) == [route |-> "Shell", line |-> text]
Ai(mode, query) == [route |-> "Ai", mode |-> mode, query |-> query]
Internal(cmd) == [route |-> "Internal", cmd |-> cmd]

\* the mutant of route_input: the generic prefix tried before the specific forms
route_input_generic_first(line) ==
    LET trimmed == trim(line)
        prefix  == captures(AI_PREFIX, trimmed)
    IN  IF prefix # None
        THEN Ai(General, trim(SubSeq(trimmed, prefix[1].end, Len(trimmed))))
        ELSE Shell(line)

\* route_input
route_input(line) ==
    LET trimmed == trim(line)
        mode    == captures(AI_MODE, trimmed)
        run     == captures(AI_RUN, trimmed)
        explain == captures(AI_EXPLAIN, trimmed)
        do      == captures(AI_DO, trimmed)
        prefix  == captures(AI_PREFIX, trimmed)
    IN  IF is_match(AI_HELP, trimmed) THEN Internal(Help)
        ELSE IF mode # None THEN Internal(SetMode(mode[1].text))
        ELSE IF is_match(AI_HISTORY, trimmed) THEN Internal(History)
        ELSE IF run # None THEN Ai(Run, run[1].text)
        ELSE IF explain # None THEN Ai(Explain(explain[1].text), explain[1].text)
        ELSE IF do # None THEN Ai(Do, do[1].text)
        ELSE IF is_match(AI_FIX, trimmed) THEN Ai(Fix, "")
        ELSE IF is_match(AI_SYSINFO, trimmed) THEN Ai(SysInfo, "system information")
        ELSE IF is_match(AI_SERVICES, trimmed) THEN Ai(SysInfo, "list running services")
        ELSE IF is_match(AI_PACKAGES, trimmed) THEN Ai(SysInfo, "list installed packages")
        ELSE IF prefix # None
             THEN Ai(General, trim(SubSeq(trimmed, prefix[1].end, Len(trimmed))))
        ELSE Shell(line)

\* the mutant of is_ai_command: the line is not trimmed
is_ai_command_untrimmed(line) == is_match(AI_PREFIX, line)

\* is_ai_command
is_ai_command(line) == is_match(AI_PREFIX, trim(line))

(***************************************************************************)
(* The session (shell.rs): a line is typed; the main loop hands it to      *)
(* handle_ai_command when the mode is Assist and is_ai_command holds, and  *)
(* to the shell otherwise.  route_input and is_ai_command are also called  *)
(* on their own, on lines the session cannot type as well (the loop drops  *)
(* the bytes below 0x20 and never handles an empty line).                  *)
(***************************************************************************)
TypedLines == {
    "ls -la", "echo ai", "aide", "AI fix", "ai", "@ai",
    "ai what time is it", "@ai help me", "ai find files larger than 100MB",
    "ai help", "ai ?", "@ai help", "ai helpme",
    "ai mode off", "ai mode assist", "@ai mode off", "ai mode", "ai mode off now",
    "ai  mode  verbose", "ai mode run",
    "ai history", "ai history 5",
    "ai run \"set up nginx\"", "ai run set up nginx", "ai run", "ai run 'x", "ai run \"",
    "ai run help", "ai run fix",
    "ai explain 'ls -la'", "ai explain ls", "ai explain",
    "ai do \"deploy app\"", "ai do it", "ai do",
    "ai fix", "@ai fix", "ai fix it", "ai fixes",
    "ai sysinfo", "ai services", "ai packages", "@ai packages", "ai packages all"
}

PaddedLines == {
    "ai ", "ai   ", "@ai ", " ai ", " ai fix", "ai fix  ", "  ai mode off ", " ls", "   "
}

ControlLines == {"", "ai\t", "ai\tfix", "ai fix\n", "ai mode off\r\n", "ai\n"}

RouterLines == TypedLines \cup PaddedLines \cup ControlLines

\* what line_buf can hold when Enter arrives
SessionLines == TypedLines \cup PaddedLines

AiModes == {"Assist", "Off"}

\* ShellRunner::new and the line the user types first
RouterInit ==
    /\ typed \in RouterLines
    /\ ai_mode \in AiModes
    /\ routed = None
    /\ is_ai = None
    /\ received = None
    /\ pc = "line"
    /\ safety_config = DefaultSafetyConfig
    /\ command = None
    /\ returned_flags = None
    /\ EngineIdle
    /\ CallsIdle
    /\ TerminalIdle

\* input_router::route_input(&line)
RouteInput ==
    /\ pc = "line"
    /\ routed = None
    /\ routed' = Some(route_input(typed))
    /\ UNCHANGED <<typed, ai_mode, is_ai, received, pc, classifier, calls, terminal, action, safety_config,
                   input, locals, ret, memory, cwd, history>>

\* input_router::is_ai_command(&line)
IsAiCommand ==
    /\ pc = "line"
    /\ is_ai = None
    /\ is_ai' = Some(is_ai_command(typed))
    /\ UNCHANGED <<typed, ai_mode, routed, received, pc, classifier, calls, terminal, action, safety_config,
                   input, locals, ret, memory, cwd, history>>

\* ShellRunner::run at Enter: the line goes to handle_ai_command or to the shell
RunLine ==
    /\ pc = "line"
    /\ typed \in SessionLines
    /\ pc' = IF ai_mode = "Assist" /\ is_ai_command(typed) THEN "handle_ai_command" ELSE "shell"
    /\ UNCHANGED <<typed, ai_mode, routed, is_ai, received, classifier, calls, terminal, action, safety_config,
                   input, locals, ret, memory, cwd, history>>

\* handle_internal_command, the mode it leaves
handle_internal_command(cmd, mode) ==
    IF cmd.cmd = "SetMode"
    THEN CASE cmd.mode = "off"    -> "Off"
           [] cmd.mode = "assist" -> "Assist"
           [] OTHER               -> mode
    ELSE mode

\* ShellRunner::handle_ai_command: the route of the line, and the mode an
\* Internal route leaves.  For an Ai route the answer of the orchestrator is
\* then passed to execute, whose steps are the actions of Spec.
HandleAiCommand ==
    /\ pc = "handle_ai_command"
    /\ LET route == route_input(typed)
       IN  /\ received' = Some(route)
           /\ ai_mode' = IF route.route = "Internal"
                         THEN handle_internal_command(route.cmd, ai_mode)
                         ELSE ai_mode
    /\ pc' = "handled"
    /\ UNCHANGED <<typed, routed, is_ai, classifier, calls, terminal, action, safety_config,
                   input, locals, ret, memory, cwd, history>>

\* the next line is typed
NextLine ==
    /\ pc \in {"shell", "handled"}
    /\ typed' \in SessionLines
    /\ routed' = None
    /\ is_ai' = None
    /\ received' = None
    /\ pc' = "line"
    /\ UNCHANGED <<ai_mode, classifier, calls, terminal, action, safety_config,
                   input, locals, ret, memory, cwd, history>>

RouterNext ==
    \/ RouteInput
    \/ IsAiCommand
    \/ RunLine
    \/ HandleAiCommand
    \/ NextLine

SpecRouter == RouterInit /\ [][RouterNext]_vars

(***************************************************************************)
(* ShellRunner::run (shell.rs): the session.  The main thread reads stdin  *)
(* in chunks, walks the bytes of a chunk to keep line_buf, hands a         *)
(* completed line to handle_ai_command when the mode is Assist and         *)
(* is_ai_command holds, and writes the chunk to the PTY; the output thread *)
(* copies the PTY to stdout until the running flag is cleared or the PTY   *)
(* is closed.  A byte is a one-character string, or DEL for 0x7f.  The     *)
(* execute call of the handler is the engine above: its actions run while  *)
(* the session is at "execute".                                            *)
(***************************************************************************)
MaxReads == 2

Bytes(str) == [n \in 1..Len(str) |-> Char(str, n)]

\* what one read of stdin can return
InputChunks == {
    Bytes("ai fix\r"),
    Bytes("ai mode off\n"),
    Bytes("ls\r"),
    Bytes("ls\rai x\r"),
    Bytes("ai "),
    <<"l", "DEL", "a", "i", "\t", " ", "?", "\r">>,
    Bytes("\r")
}

\* the bytes below 0x20 other than CR and LF
ControlBytes == {"\t", "\f"}

\* what orchestrator.query can answer with
SessionActions ==
    {[kind |-> "AnswerOnly", steps |-> <<>>]}
    \cup {[kind |-> "CommandSequence", steps |-> <<MkStep(StepId(1), c, FALSE, None)>>] :
             c \in {"echo ok", "rm -rf /", "iptables -F"}}

\* the mutant of Intercepts: the mode is not looked at
InterceptsAnyMode(line) == is_ai_command(line)

\* self.ai_mode == AiMode::Assist && input_router::is_ai_command(&line)
Intercepts(line) == ai_mode = "Assist" /\ is_ai_command(line)

\* the mutant of disable_raw_mode: the terminal is left as it is
disable_raw_mode_skipped == UNCHANGED raw_mode

\* crossterm::terminal::disable_raw_mode()
disable_raw_mode == raw_mode' = FALSE

\* crossterm::terminal::enable_raw_mode()
enable_raw_mode == raw_mode' = TRUE

\* ShellRunner::new, before run is called
SessionInit ==
    /\ session = "Starting"
    /\ raw_mode = FALSE
    /\ orchestrator_available \in BOOLEAN
    /\ ai_mode \in AiModes
    /\ stdin_eof = FALSE
    /\ reads = 0
    /\ data = <<>>
    /\ byte_index = 1
    /\ line_buf = ""
    /\ pty_written = <<>>
    /\ unintercepted = <<>>
    /\ outcome = "none"
    /\ running = FALSE
    /\ output_thread = "none"
    /\ child = "none"
    /\ typed = ""
    /\ routed = None
    /\ is_ai = None
    /\ received = None
    /\ pc = "idle"
    /\ safety_config = DefaultSafetyConfig
    /\ command = None
    /\ returned_flags = None
    /\ EngineIdle
    /\ CallsIdle

\* run up to the input loop: the PTY is opened, the shell spawned, raw mode
\* enabled and the output thread started, or one of them fails and run returns
Start ==
    /\ session = "Starting"
    /\ \/ /\ session' = "read"
          /\ enable_raw_mode
          /\ running' = TRUE
          /\ output_thread' = "read"
          /\ child' = "alive"
       \/ /\ session' = "Exited"
          /\ UNCHANGED <<raw_mode, threads>>
    /\ UNCHANGED <<orchestrator_available, stdin_eof, outcome, input_loop, classifier, router,
                   calls, pc, action, safety_config, input, locals, ret, memory, cwd, history>>

\* stdin.read returns Ok(n), n > 0
StdinData ==
    /\ session = "read"
    /\ reads < MaxReads
    /\ \E chunk \in InputChunks : data' = chunk
    /\ byte_index' = 1
    /\ reads' = reads + 1
    /\ session' = "for_byte"
    /\ UNCHANGED <<raw_mode, orchestrator_available, stdin_eof, outcome, line_buf, pty_written,
                   unintercepted, threads, classifier, router, calls, pc, action,
                   safety_config, input, locals, ret, memory, cwd, history>>

\* stdin.read returns Ok(0) or an error: break
StdinEof ==
    /\ session = "read"
    /\ stdin_eof' = TRUE
    /\ session' = "shutdown"
    /\ UNCHANGED <<raw_mode, orchestrator_available, outcome, input_loop, threads, classifier,
                   router, calls, pc, action, safety_config, input, locals, ret, memory,
                   cwd, history>>

\* Vec::pop
pop(buf) == IF buf = "" THEN "" ELSE SubSeq(buf, 1, Len(buf) - 1)

\* one turn of `for &byte in data`, up to the call of handle_ai_command when
\* the byte completes a line for the AI
ForByte ==
    /\ session = "for_byte"
    /\ byte_index <= Len(data)
    /\ LET byte == data[byte_index]
       IN  IF byte \in {"\r", "\n"} /\ line_buf # "" /\ Intercepts(line_buf)
           THEN /\ typed' = line_buf
                /\ line_buf' = ""
                /\ disable_raw_mode
                /\ received' = None
                /\ outcome' = "none"
                /\ session' = "handle_ai_command"
                /\ UNCHANGED <<byte_index, unintercepted>>
           ELSE /\ line_buf' = CASE byte \in {"\r", "\n"}  -> ""
                                 [] byte = "DEL"           -> pop(line_buf)
                                 [] byte \in ControlBytes  -> line_buf
                                 [] OTHER                  -> line_buf \o byte
                /\ byte_index' = byte_index + 1
                /\ unintercepted' = Append(unintercepted, byte)
                /\ UNCHANGED <<typed, raw_mode, received, outcome, session>>
    /\ UNCHANGED <<orchestrator_available, stdin_eof, reads, data, pty_written, threads,
                   classifier, ai_mode, routed, is_ai, calls, pc, action, safety_config,
                   input, locals, ret, memory, cwd, history>>

\* handle_ai_command up to orchestrator.query: the route of the line, the
\* internal command or the missing orchestrator
HandleRoute ==
    /\ session = "handle_ai_command"
    /\ LET route == route_input(typed)
       IN  /\ received' = Some(route)
           /\ CASE route.route = "Ai" ->
                     /\ IF orchestrator_available
                        THEN session' = "query" /\ UNCHANGED outcome
                        ELSE session' = "handler_done" /\ outcome' = "unavailable"
                     /\ UNCHANGED ai_mode
                [] route.route = "Internal" ->
                     /\ ai_mode' = handle_internal_command(route.cmd, ai_mode)
                     /\ outcome' = "internal"
                     /\ session' = "handler_done"
                [] route.route = "Shell" ->
                     /\ outcome' = "shell"
                     /\ session' = "handler_done"
                     /\ UNCHANGED ai_mode
    /\ UNCHANGED <<raw_mode, orchestrator_available, stdin_eof, input_loop, threads,
                   classifier, typed, routed, is_ai, calls, pc, action, safety_config,
                   input, locals, ret, memory, cwd, history>>

\* the mutant of Query: an error of the orchestrator ends the input loop
QueryErrorBreaks ==
    /\ session = "query"
    /\ \/ /\ outcome' = "ai_error"
          /\ session' = "shutdown"
          /\ UNCHANGED <<pc, action, input, locals, ret, history>>
       \/ /\ \E answer \in SessionActions : action' = answer
          /\ pc' = "execute"
          /\ input' = None
          /\ edited_steps' = <<>>
          /\ edit_index' = 1
          /\ kept_original' = {}
          /\ steps_to_run' = <<>>
          /\ i' = 1
          /\ results' = <<>>
          /\ ret' = NoReturn
          /\ spawned' = <<>>
          /\ confirmed' = {}
          /\ analyzed' = <<>>
          /\ session' = "execute"
          /\ UNCHANGED outcome
    /\ UNCHANGED <<raw_mode, orchestrator_available, stdin_eof, input_loop, threads,
                   classifier, router, calls, safety_config, memory, cwd>>

\* orchestrator.query(&cmd.query, cmd.mode).await: an error, which is printed,
\* or an action, with which execute is called
Query ==
    /\ session = "query"
    /\ \/ /\ outcome' = "ai_error"
          /\ session' = "handler_done"
          /\ UNCHANGED <<pc, action, input, locals, ret, history>>
       \/ /\ \E answer \in SessionActions : action' = answer
          /\ pc' = "execute"
          /\ input' = None
          /\ edited_steps' = <<>>
          /\ edit_index' = 1
          /\ kept_original' = {}
          /\ steps_to_run' = <<>>
          /\ i' = 1
          /\ results' = <<>>
          /\ ret' = NoReturn
          /\ spawned' = <<>>
          /\ confirmed' = {}
          /\ analyzed' = <<>>
          /\ session' = "execute"
          /\ UNCHANGED outcome
    /\ UNCHANGED <<raw_mode, orchestrator_available, stdin_eof, input_loop, threads,
                   classifier, router, calls, safety_config, memory, cwd>>

\* execute has returned: its error is printed, its locals are gone
ExecuteReturns ==
    /\ session = "execute"
    /\ pc = "done"
    /\ outcome' = IF ret.tag = "Ok" THEN "ok" ELSE "execution_error"
    /\ pc' = "idle"
    /\ action' = [kind |-> "AnswerOnly", steps |-> <<>>]
    /\ input' = None
    /\ edited_steps' = <<>>
    /\ edit_index' = 1
    /\ kept_original' = {}
    /\ steps_to_run' = <<>>
    /\ i' = 1
    /\ results' = <<>>
    /\ ret' = NoReturn
    /\ session' = "handler_done"
    /\ UNCHANGED <<raw_mode, orchestrator_available, stdin_eof, input_loop, threads,
                   classifier, router, calls, safety_config, memory, cwd, history>>

\* the mutant of HandlerReturns: raw mode is enabled again only after a
\* handler that ended without an error
HandlerReturnsRawIfOk ==
    /\ session = "handler_done"
    /\ raw_mode' = (outcome \in {"ok", "internal"})
    /\ byte_index' = byte_index + 1
    /\ session' = "for_byte"
    /\ UNCHANGED <<orchestrator_available, stdin_eof, outcome, reads, data, line_buf,
                   pty_written, unintercepted, threads, classifier, router, calls, pc,
                   action, safety_config, input, locals, ret, memory, cwd, history>>

\* handle_ai_command has returned: enable_raw_mode and `continue`
HandlerReturns ==
    /\ session = "handler_done"
    /\ enable_raw_mode
    /\ byte_index' = byte_index + 1
    /\ session' = "for_byte"
    /\ UNCHANGED <<orchestrator_available, stdin_eof, outcome, reads, data, line_buf,
                   pty_written, unintercepted, threads, classifier, router, calls, pc,
                   action, safety_config, input, locals, ret, memory, cwd, history>>

\* writer.write_all(data) after the for loop; it can fail once the child has
\* exited, and then the loop ends
PassThrough ==
    /\ session = "for_byte"
    /\ byte_index > Len(data)
    /\ \/ /\ pty_written' = pty_written \o data
          /\ session' = "try_wait"
       \/ /\ child = "exited"
          /\ session' = "shutdown"
          /\ UNCHANGED pty_written
    /\ UNCHANGED <<raw_mode, orchestrator_available, stdin_eof, outcome, reads, data,
                   byte_index, line_buf, unintercepted, threads, classifier, router, calls,
                   pc, action, safety_config, input, locals, ret, memory, cwd, history>>

\* child.try_wait() at the end of a turn of the input loop
TryWait ==
    /\ session = "try_wait"
    /\ session' = IF child = "exited" THEN "shutdown" ELSE "read"
    /\ UNCHANGED <<raw_mode, orchestrator_available, stdin_eof, outcome, input_loop, threads,
                   classifier, router, calls, pc, action, safety_config, input, locals,
                   ret, memory, cwd, history>>

\* running.store(false)
Shutdown ==
    /\ session = "shutdown"
    /\ running' = FALSE
    /\ session' = "join"
    /\ UNCHANGED <<raw_mode, orchestrator_available, stdin_eof, outcome, input_loop,
                   output_thread, child, classifier, router, calls, pc, action,
                   safety_config, input, locals, ret, memory, cwd, history>>

\* output_handle.join() returns once the output thread has ended
Join ==
    /\ session = "join"
    /\ output_thread = "done"
    /\ session' = "wait"
    /\ UNCHANGED <<raw_mode, orchestrator_available, stdin_eof, outcome, input_loop, threads,
                   classifier, router, calls, pc, action, safety_config, input, locals,
                   ret, memory, cwd, history>>

\* child.wait() returns once the child has exited; run returns and the
\* RawModeGuard is dropped
Wait ==
    /\ session = "wait"
    /\ child = "exited"
    /\ raw_mode' = FALSE
    /\ session' = "Exited"
    /\ UNCHANGED <<orchestrator_available, stdin_eof, outcome, input_loop, threads,
                   classifier, router, calls, pc, action, safety_config, input, locals,
                   ret, memory, cwd, history>>

\* the output thread: reader.read returns bytes of the child (or WouldBlock),
\* they are copied, and the flag is loaded before the next read
OutputCopy ==
    /\ output_thread = "read"
    /\ child = "alive"
    /\ output_thread' = IF running THEN "read" ELSE "done"
    /\ UNCHANGED <<session, raw_mode, orchestrator_available, stdin_eof, outcome, input_loop,
                   running, child, classifier, router, calls, pc, action, safety_config,
                   input, locals, ret, memory, cwd, history>>

\* the output thread: reader.read returns Ok(0) or an error once the child
\* has exited: break
OutputEnds ==
    /\ output_thread = "read"
    /\ child = "exited"
    /\ output_thread' = "done"
    /\ UNCHANGED <<session, raw_mode, orchestrator_available, stdin_eof, outcome, input_loop,
                   running, child, classifier, router, calls, pc, action, safety_config,
                   input, locals, ret, memory, cwd, history>>

\* the child shell exits
ChildExits ==
    /\ child = "alive"
    /\ child' = "exited"
    /\ UNCHANGED <<session, raw_mode, orchestrator_available, stdin_eof, outcome, input_loop,
                   running, output_thread, classifier, router, calls, pc, action,
                   safety_config, input, locals, ret, memory, cwd, history>>

\* the steps of execute, taken while the handler is in it
EngineStep ==
    /\ session = "execute"
    /\ Next

SessionNext ==
    \/ Start
    \/ StdinData
    \/ StdinEof
    \/ ForByte
    \/ HandleRoute
    \/ Query
    \/ EngineStep
    \/ ExecuteReturns
    \/ HandlerReturns
    \/ PassThrough
    \/ TryWait
    \/ Shutdown
    \/ Join
    \/ Wait
    \/ OutputCopy
    \/ OutputEnds
    \/ ChildExits

SpecSession == SessionInit /\ [][SessionNext]_vars

\* the steps of the main thread that do not wait for a new line of the user in
\* the input loop: all of them but the reads of stdin
MainStep ==
    \/ Start
    \/ ForByte
    \/ HandleRoute
    \/ EngineStep
    \/ ExecuteReturns
    \/ HandlerReturns
    \/ PassThrough
    \/ TryWait
    \/ Shutdown
    \/ Join
    \/ Wait

\* the session with both threads scheduled fairly: a step a thread can take
\* is taken, the orchestrator answers a query and the prompts of a running
\* interaction are answered; the input loop's reads of stdin, the output of
\* the child and its exit (StdinData, StdinEof, OutputCopy, ChildExits) are
\* owed by nobody
SpecSessionFair ==
    /\ SessionInit
    /\ [][SessionNext]_vars
    /\ WF_vars(MainStep)
    /\ WF_vars(Query)
    /\ WF_vars(OutputEnds)

(***************************************************************************)
(* The properties of the engine and of the classifier.                     *)
(***************************************************************************)
\* what analyze_command says of a command under the policy of the call, and
\* the answer a prompt makes of the line it has read
FlagsOf(cmd) == Analysis[cmd, safety_config]
Answer == to_lowercase(trim(input[1]))

\* C1, the state part: no process has been run for a command that
\* analyze_command reports as blocked, and when execute has returned Blocked no
\* process has been run for the step at that loop position or a later one.
C1_NoBlockedSpawn ==
    /\ \A k \in 1..Len(spawned) : ~FlagsOf(spawned[k][2]).is_blocked
    /\ (pc = "done" /\ ret.tag = "Err" /\ ret.error.kind = "Blocked")
         => /\ i <= Len(steps_to_run)
            /\ ret.error.command = steps_to_run[i].shell_command
            /\ \A k \in 1..Len(spawned) : spawned[k][1] < i

\* C1, the step part: when the loop reaches a step whose command is blocked,
\* execute returns Blocked(command) there and then without running a process,
\* and nothing happens after execute has returned.
C1_BlockedStep ==
    /\ pc # "done"
    /\ (pc = "loop" /\ i <= Len(steps_to_run)
        /\ FlagsOf(steps_to_run[i].shell_command).is_blocked)
         => /\ pc' = "done"
            /\ ret' = Err(Blocked(steps_to_run[i].shell_command))
            /\ UNCHANGED <<spawned, results, memory>>

\* C1: a command for which analyze_command reports is_blocked is never passed
\* to the shell: execute returns Blocked(command) and no step at or after it
\* is executed.
C1_BlockedNeverRuns == []C1_NoBlockedSpawn /\ [][C1_BlockedStep]_vars

\* an earlier step has run, then the loop reached "rm -rf /" and returned Blocked
C1_Witness ==
    /\ pc = "done"
    /\ ret = Err(Blocked("rm -rf /"))
    /\ i = 2
    /\ Len(spawned) >= 1

\* the command matches a blocklist pattern of the policy that compiles
MatchesBlocklist ==
    \E k \in 1..Len(safety_config.blocked_patterns) :
        LET re == Regex_new(safety_config.blocked_patterns[k])
        IN  re.ok /\ is_match(re.re, command[1])

\* C2: for every command that matches at least one configured blocklist
\* pattern, analyze_command returns is_blocked = true with exactly one warning,
\* and every other flag is false.
C2_BlockedFlagsOnly ==
    (returned_flags # None /\ MatchesBlocklist)
      => LET f == returned_flags[1]
         IN  /\ f.is_blocked
             /\ Len(f.warnings) = 1
             /\ ~f.is_destructive
             /\ ~f.requires_sudo
             /\ ~f.affects_critical_service
             /\ ~f.modifies_packages
             /\ ~f.modifies_protected_path
             /\ ~f.affects_database
             /\ ~f.affects_network

\* a blocked command that the sudo and the filesystem checks would flag as well
C2_Witness ==
    /\ returned_flags # None
    /\ returned_flags[1].is_blocked
    /\ command = Some("sudo rm -rf /")
    /\ safety_config = DefaultSafetyConfig

\* C3, the step: the answer n or no at the plan prompt makes execute return
\* Cancelled with no process run before or by it, no StepResult, and the engine
\* memory and the current directory as they were.
C3_RejectStep ==
    (pc = "prompt_confirmation" /\ input # None /\ Answer \in {"n", "no"})
      => /\ pc' = "done"
         /\ ret' = Err(Cancelled)
         /\ spawned = <<>> /\ spawned' = <<>>
         /\ results = <<>> /\ results' = <<>>
         /\ UNCHANGED <<memory, cwd>>

\* C3: when the user rejects the plan (n or no) at the plan prompt, execute
\* returns Cancelled; no process is spawned, no StepResult is produced and the
\* engine memory is unchanged.
C3_RejectCancels == [][C3_RejectStep]_vars

\* execute has returned Cancelled on the answer " No "
C3_Witness ==
    /\ pc = "done"
    /\ input = Some(" No \n")
    /\ ret = Err(Cancelled)
    /\ spawned = <<>>

\* C4: for an AnswerOnly action, whatever its steps, and for any action with an
\* empty step list, execute is never at a prompt, spawns no process and returns
\* Ok with an empty result list.
C4_NothingToRun ==
    (action.kind = "AnswerOnly" \/ action.steps = <<>>)
      => /\ pc \in {"execute", "done"}
         /\ input = None
         /\ spawned = <<>>
         /\ memory = <<None, None, None>>
         /\ (pc = "done" => ret = Ok(<<>>))

\* an AnswerOnly action that carries two steps has returned
C4_Witness ==
    /\ pc = "done"
    /\ action.kind = "AnswerOnly"
    /\ Len(action.steps) = 2
    /\ ret = Ok(<<>>)

\* the step the loop is at is withheld by the sudo policy
Withheld ==
    FlagsOf(steps_to_run[i].shell_command).requires_sudo
    /\ ~safety_config.allow_ai_to_execute_sudo

\* the step at loop position k is one the engine asks about
AskedAbout(k) ==
    \/ steps_to_run[k].needs_confirmation
    \/ needs_confirmation(FlagsOf(steps_to_run[k].shell_command), safety_config)

\* C5, the step part: at the dangerous-step prompt the answer yes (in any case,
\* surrounded by any whitespace) sends the step to execution unless the sudo
\* policy withholds it; every other answer, the empty one included, skips that
\* one step: the loop goes to the next step, nothing is run, nothing is
\* returned.
C5_AnswerStep ==
    (pc = "confirm_dangerous_step" /\ input # None)
      => IF Answer = "yes"
         THEN /\ confirmed' = confirmed \cup {i}
              /\ ~Withheld => (pc' = "execute_step" /\ i' = i)
         ELSE /\ pc' = "loop"
              /\ i' = i + 1
              /\ ret' = NoReturn
              /\ UNCHANGED <<results, spawned, confirmed, memory, steps_to_run>>

\* C5, the state part: a process has been run for a step the engine asks about
\* only if that step was answered yes.
C5_RunOnlyIfYes ==
    \A k \in 1..Len(spawned) : AskedAbout(spawned[k][1]) => spawned[k][1] \in confirmed

\* C5: at the dangerous-step prompt only the answer yes lets the step execute;
\* any other input skips exactly that step and the engine continues with the
\* next step without failing.
C5_OnlyYesExecutes == []C5_RunOnlyIfYes /\ [][C5_AnswerStep]_vars

\* the first step was asked about and not answered yes, the second has run and
\* execute has returned Ok with the second step's result alone
C5_Witness ==
    /\ pc = "done"
    /\ ret.tag = "Ok"
    /\ Len(steps_to_run) = 2
    /\ steps_to_run[1].needs_confirmation
    /\ confirmed = {}
    /\ spawned = <<<<2, "echo ok">>>>
    /\ Len(ret.results) = 1

\* C6: whatever the two require_confirmation toggles are, a process has been
\* run for a step flagged affects_critical_service, affects_database or
\* affects_network only if the user answered yes at the dangerous-step prompt
\* for that step in this call.
C6_ServiceDatabaseNetworkConfirmed ==
    \A k \in 1..Len(spawned) :
        LET f == FlagsOf(spawned[k][2])
        IN  (f.affects_critical_service \/ f.affects_database \/ f.affects_network)
              => spawned[k][1] \in confirmed

\* with both toggles off, a service restart has run after a yes
C6_Witness ==
    /\ ~safety_config.require_confirmation_for_destructive
    /\ ~safety_config.require_confirmation_for_sudo
    /\ \E k \in 1..Len(spawned) :
          /\ spawned[k][2] = "systemctl restart sshd"
          /\ spawned[k][1] \in confirmed

\* C7, the state part: with allow_ai_to_execute_sudo off, no process has been
\* run and no StepResult exists for a command flagged requires_sudo.
C7_NoSudoRun ==
    ~safety_config.allow_ai_to_execute_sudo
      => /\ \A k \in 1..Len(spawned) : ~FlagsOf(spawned[k][2]).requires_sudo
         /\ \A k \in 1..Len(results) : ~FlagsOf(results[k].command).requires_sudo

\* C7, the step part: with allow_ai_to_execute_sudo off, a requires_sudo step
\* that is not blocked is either asked about or passed over, whatever the
\* answer: the loop goes to the next step, no result is pushed, nothing is
\* returned.
C7_WithheldStep ==
    (/\ pc \in {"loop", "confirm_dangerous_step"}
     /\ pc = "confirm_dangerous_step" => input # None
     /\ i <= Len(steps_to_run)
     /\ Withheld
     /\ ~FlagsOf(steps_to_run[i].shell_command).is_blocked)
      => /\ \/ pc = "loop" /\ pc' = "confirm_dangerous_step" /\ i' = i
            \/ pc' = "loop" /\ i' = i + 1
         /\ ret' = NoReturn
         /\ UNCHANGED <<results, spawned, memory, steps_to_run>>

\* C7: when allow_ai_to_execute_sudo is false no step flagged requires_sudo is
\* ever executed, whatever the user answers; such a step produces no
\* StepResult, is not a failure, and the engine continues with the next step.
C7_SudoNeverRuns == []C7_NoSudoRun /\ [][C7_WithheldStep]_vars

\* the user said yes to a sudo step, the policy withheld it, the next step ran
C7_Witness ==
    /\ pc = "done"
    /\ ret.tag = "Ok"
    /\ ~safety_config.allow_ai_to_execute_sudo
    /\ Len(steps_to_run) = 2
    /\ steps_to_run[1].shell_command = "sudo apt update"
    /\ 1 \in confirmed
    /\ spawned = <<<<2, "echo ok">>>>

\* the last StepResult pushed
LastResult == results[Len(results)]

\* C8, the step part: the answer r or retry at the failure prompt leads to one
\* more run of the same step; when that process has run, its StepResult is
\* pushed directly after the failed one, with the same step_id, and the loop
\* goes to the next step with nothing returned, whether the retry succeeded or
\* not.  Only that answer leads to a second run.
C8_RetryStep ==
    /\ (pc = "prompt_failure_action" /\ input # None /\ Answer \in {"r", "retry"})
         => /\ pc' = "retry_step"
            /\ i' = i
            /\ UNCHANGED <<results, spawned, ret, steps_to_run>>
    /\ pc' = "retry_step" => pc = "prompt_failure_action"
    /\ (pc = "retry_step" /\ spawned' # spawned)
         => /\ spawned' = Append(spawned, <<i, steps_to_run[i].shell_command>>)
            /\ Len(results') = Len(results) + 1
            /\ SubSeq(results', 1, Len(results)) = results
            /\ ~LastResult.success
            /\ LastResult.step_id = steps_to_run[i].id
            /\ results'[Len(results')].step_id = LastResult.step_id
            /\ pc' = "loop"
            /\ i' = i + 1
            /\ ret' = NoReturn

\* C8, the state part: no step has been run more than twice, and a step run
\* twice has its two StepResults next to each other, the first a failure.
C8_AtMostOneRetry ==
    /\ \A k \in 1..Len(spawned) :
          Cardinality({m \in 1..Len(spawned) : spawned[m][1] = spawned[k][1]}) <= 2
    /\ \A k, m \in 1..Len(results) :
          (k < m /\ results[k].step_id = results[m].step_id)
            => m = k + 1 /\ ~results[k].success

C9_AbortStep ==
    /\ pc # "done"
    /\ (pc = "prompt_failure_action" /\ input # None /\ Answer \in {"a", "abort"})
         => /\ pc' = "done"
            /\ ret' = Err(StepFailed(steps_to_run[i].id))
            /\ LastResult.step_id = steps_to_run[i].id
            /\ ~LastResult.success
            /\ UNCHANGED <<spawned, confirmed, results, i>>

\* C9: when a step fails and the user chooses abort, execute returns StepFailed
\* with that step's id, and no later step is executed, confirmed or prompted
\* for.
C9_AbortStops == [][C9_AbortStep]_vars

\* the first of two steps failed and the user aborted: the second never ran
C9_Witness ==
    /\ pc = "done"
    /\ ret = Err(StepFailed("1"))
    /\ Len(steps_to_run) = 2
    /\ Len(spawned) = 1

\* every step of the list the loop runs is safe: not marked by the AI and
\* without a concern for analyze_command
AllSafe ==
    \A k \in 1..Len(steps_to_run) :
        /\ ~steps_to_run[k].needs_confirmation
        /\ ~has_concerns(FlagsOf(steps_to_run[k].shell_command))

\* C10, the step part: the answer y or yes at the plan prompt starts the loop
\* on the original step list.
C10_AcceptStep ==
    (pc = "prompt_confirmation" /\ input # None /\ Answer \in {"y", "yes"})
      => /\ pc' = "loop"
         /\ steps_to_run' = action.steps
         /\ i' = 1
         /\ results' = <<>>
         /\ ret' = NoReturn

\* C10, the state part: when execute has returned after running the original
\* list, all of its steps safe, a process run for every step and every process
\* ended with exit code 0, it has returned Ok with one StepResult per step, in
\* the order of the steps, each with success = true and exit_code = 0.
C10_AllRan ==
    (/\ pc = "done"
     /\ action.steps # <<>>
     /\ steps_to_run = action.steps
     /\ AllSafe
     /\ Len(spawned) = Len(steps_to_run)
     /\ \A k \in 1..Len(results) : results[k].exit_code = 0)
      => /\ ret = Ok(results)
         /\ Len(results) = Len(steps_to_run)
         /\ \A k \in 1..Len(results) :
               /\ results[k].step_id = steps_to_run[k].id
               /\ results[k].command = steps_to_run[k].shell_command
               /\ results[k].success
               /\ results[k].exit_code = 0

\* C10: when the user accepts the plan the original step list is run
\* unchanged; if all steps are safe and all exit 0, execute returns Ok with
\* exactly one StepResult per step, in step order, each with success = true
\* and exit_code = 0.
C10_AcceptRunsAll == []C10_AllRan /\ [][C10_AcceptStep]_vars

\* the original list of two safe steps was run, both processes exited 0
C10_Witness ==
    /\ pc = "done"
    /\ Len(action.steps) = 2
    /\ steps_to_run = action.steps
    /\ AllSafe
    /\ ret = Ok(results)
    /\ Len(results) = 2
    /\ \A k \in 1..2 : results[k].success

\* C11: at the plan confirmation prompt only a recognized response (y, yes,
\* e, edit, n, no, s, skip) produces a decision; every other line, the empty
\* one included, leads to the prompt being shown again: execute stays at the
\* prompt, waiting for a new line, and nothing else changes.
C11_UnrecognizedReprompts ==
    [][(pc = "prompt_confirmation" /\ input # None
        /\ Answer \notin {"y", "yes", "e", "edit", "n", "no", "s", "skip"})
         => /\ pc' = "prompt_confirmation"
            /\ input' = None
            /\ UNCHANGED <<locals, ret, memory, cwd, history>>]_vars

\* C12: at the step-failure prompt only a recognized response (c, continue,
\* r, retry, a, abort) produces a decision; every other line, the empty one
\* included, leads to the prompt being shown again: execute stays at the
\* prompt, waiting for a new line, and nothing else changes.
C12_UnrecognizedReprompts ==
    [][(pc = "prompt_failure_action" /\ input # None
        /\ Answer \notin {"c", "continue", "r", "retry", "a", "abort"})
         => /\ pc' = "prompt_failure_action"
            /\ input' = None
            /\ UNCHANGED <<locals, ret, memory, cwd, history>>]_vars

\* C13, the step: the answer s or skip at the plan prompt makes execute return
\* Ok with an empty list, with no process run before or by it.
C13_SkipStep ==
    (pc = "prompt_confirmation" /\ input # None /\ Answer \in {"s", "skip"})
      => /\ pc' = "done"
         /\ ret' = Ok(<<>>)
         /\ spawned = <<>> /\ spawned' = <<>>
         /\ UNCHANGED <<memory, cwd>>

\* C13: if the user answers skip (s or skip) at the plan confirmation prompt,
\* execute returns Ok with an empty result list, spawns no process and raises
\* no failure.
C13_SkipReturnsEmpty == [][C13_SkipStep]_vars

\* execute has returned Ok([]) for a list of two steps on the answer "s"
C13_Witness ==
    /\ pc = "done"
    /\ input = Some("s\n")
    /\ Len(action.steps) = 2
    /\ ret = Ok(<<>>)
    /\ spawned = <<>>

\* C14, the step: the answer q or quit at a step of the edit sub-flow makes
\* execute return Cancelled; no process has been run and none is, the loop has
\* no list to run, whatever steps were kept or edited before.
C14_QuitStep ==
    (pc = "edit_steps" /\ input # None /\ Answer \in {"q", "quit"})
      => /\ pc' = "done"
         /\ ret' = Err(Cancelled)
         /\ spawned = <<>> /\ spawned' = <<>>
         /\ steps_to_run' = <<>>
         /\ results' = <<>>
         /\ UNCHANGED <<memory, cwd>>

\* C14: in the edit sub-flow, answering quit at any step aborts the whole
\* action as Cancelled: none of the steps is executed, including the steps
\* that were already kept or edited before the quit.
C14_QuitCancels == [][C14_QuitStep /\ pc # "done"]_vars

\* the first step was kept or edited, then the user quit at the second
C14_Witness ==
    /\ pc = "done"
    /\ input = Some("q\n")
    /\ ret = Err(Cancelled)
    /\ edit_index = 2
    /\ Len(edited_steps) = 1
    /\ spawned = <<>>

\* C15, the step: when the last step of the edit sub-flow is answered s or skip
\* and no step has been kept, execute returns Cancelled and no process has been
\* run or is.
C15_LastSkipStep ==
    (pc = "edit_steps" /\ input # None /\ Answer \in {"s", "skip"}
     /\ edit_index = Len(action.steps) /\ edited_steps = <<>>)
      => /\ pc' = "done"
         /\ ret' = Err(Cancelled)
         /\ spawned = <<>> /\ spawned' = <<>>

\* C15, the state: the loop never runs an empty list.
C15_LoopHasSteps ==
    pc \in {"loop", "confirm_dangerous_step", "execute_step",
            "prompt_failure_action", "retry_step"} => steps_to_run # <<>>

\* C15: if the edit sub-flow ends with zero steps (every step answered skip),
\* execute returns Cancelled and spawns no process.
C15_ZeroStepsCancels == []C15_LoopHasSteps /\ [][C15_LastSkipStep]_vars

\* both steps of a list of two were answered "s"
C15_Witness ==
    /\ pc = "done"
    /\ input = Some("s\n")
    /\ ret = Err(Cancelled)
    /\ Len(action.steps) = 2
    /\ edit_index = 2
    /\ edited_steps = <<>>

\* C16, the step: when the replacement line of an edited step is empty or
\* whitespace only, the step is pushed as it was: the list edit_steps goes on
\* with, or returns to the loop, is the list so far followed by the original
\* step.
C16_EmptyEditStep ==
    (pc = "edit_new_command" /\ input # None /\ trim(input[1]) = "")
      => LET kept == Append(edited_steps, action.steps[edit_index])
         IN  \/ pc' = "edit_steps" /\ edited_steps' = kept
             \/ pc' = "loop" /\ steps_to_run' = kept

\* C16, the state: no step of the edited list or of the list the loop runs has
\* an empty command.
C16_NoEmptyCommand ==
    /\ \A k \in 1..Len(edited_steps) : edited_steps[k].shell_command # ""
    /\ \A k \in 1..Len(steps_to_run) : steps_to_run[k].shell_command # ""

\* C16: in the edit sub-flow, answering edit for a step and then giving an
\* empty or whitespace-only replacement keeps the step with its original
\* shell_command; the step is neither dropped nor given an empty command.
C16_EmptyEditKeeps == []C16_NoEmptyCommand /\ [][C16_EmptyEditStep]_vars

\* the first step was answered e and given an empty replacement: it is in the
\* edited list as it was, and the second step is being offered
C16_Witness ==
    /\ pc = "edit_steps"
    /\ edit_index = 2
    /\ 1 \in kept_original
    /\ edited_steps = <<action.steps[1]>>

\* C17: whenever a process has been run for a step, the engine memory
\* describes the step run last: last_command is its command, last_exit_code
\* its exit code and last_stderr its stderr (for a step that wrote nothing to
\* stderr, nothing or the empty text), never the stderr of an earlier step.
C17_MemoryOfLastStep ==
    (results # <<>> /\ ret # Err(CommandFailed))
      => /\ last_command = Some(LastResult.command)
         /\ last_exit_code = Some(LastResult.exit_code)
         /\ last_stderr \in (IF LastResult.stderr = "" THEN {None, Some("")}
                             ELSE {Some(LastResult.stderr)})

(***************************************************************************)
(* The properties of the input router.                                     *)
(***************************************************************************)
\* the route route_input returned, the route handle_ai_command obtained
Routed == routed[1]
Received == received[1]

\* C18, the two functions: called on the same line, is_ai_command is true
\* exactly when route_input does not return a Shell route.
C18_SameDecision ==
    (routed # None /\ is_ai # None) => (is_ai[1] <=> Routed.route # "Shell")

\* C18, the session: the route handle_ai_command obtains is never Shell.
C18_HandlerNeverShell == received # None => Received.route # "Shell"

\* C18: is_ai_command(line) is true exactly when route_input(line) is not a
\* Shell route, for every line; so the handler of the session, entered only
\* when is_ai_command holds, never receives a line that routes to Shell.
C18_AiCommandIffRouted == C18_SameDecision /\ C18_HandlerNeverShell

\* a line with a leading blank was typed, both functions were called on it and
\* the session handed it to the handler, which obtained the Fix route
C18_Witness ==
    /\ pc = "handled"
    /\ typed = " ai fix"
    /\ is_ai = Some(TRUE)
    /\ routed = Some(Ai(Fix, ""))
    /\ received = routed

\* the line is ai or @ai followed by whitespace and by nothing else
BareAi ==
    \E word \in {"ai", "@ai"} :
        /\ starts_with(typed, word)
        /\ Len(typed) > Len(word)
        /\ trim(SubSeq(typed, Len(word) + 1, Len(typed))) = ""

\* C19: route_input applied to ai (or @ai) followed only by whitespace returns
\* an Ai route with mode General and an empty query.
C19_BareAiIsEmptyGeneral ==
    (routed # None /\ BareAi) => Routed = Ai(General, "")

\* the specific forms, in the order route_input tries them
SpecificForms == <<AI_HELP, AI_MODE, AI_HISTORY, AI_RUN, AI_EXPLAIN, AI_DO,
                   AI_FIX, AI_SYSINFO, AI_SERVICES, AI_PACKAGES>>

\* the route of a line is the route of the form named
IsForm(re, route) ==
    CASE re = AI_HELP     -> route = Internal(Help)
      [] re = AI_MODE     -> route.route = "Internal" /\ route.cmd.cmd = "SetMode"
      [] re = AI_HISTORY  -> route = Internal(History)
      [] re = AI_RUN      -> route.route = "Ai" /\ route.mode = Run
      [] re = AI_EXPLAIN  -> route.route = "Ai" /\ route.mode.mode = "Explain"
                             /\ route.mode.command = route.query
      [] re = AI_DO       -> route.route = "Ai" /\ route.mode = Do
      [] re = AI_FIX      -> route = Ai(Fix, "")
      [] re = AI_SYSINFO  -> route = Ai(SysInfo, "system information")
      [] re = AI_SERVICES -> route = Ai(SysInfo, "list running services")
      [] re = AI_PACKAGES -> route = Ai(SysInfo, "list installed packages")

\* the routes the unit tests and the worked examples name
RouteExamples == {
    <<"ai mode off", Internal(SetMode("off"))>>,
    <<"ai fix", Ai(Fix, "")>>,
    <<"ai help", Internal(Help)>>,
    <<"ai sysinfo", Ai(SysInfo, "system information")>>,
    <<"ai run \"set up nginx\"", Ai(Run, "set up nginx")>>,
    <<"ai explain 'ls -la'", Ai(Explain("ls -la"), "ls -la")>>,
    <<"ai do \"deploy app\"", Ai(Do, "deploy app")>>
}

\* C20: route_input tries help, mode, history, run, explain, do, fix, sysinfo,
\* services and packages before the generic prefix: a line of a specific form
\* gets the route of that form (ai mode off gives Internal(SetMode("off")),
\* ai fix gives Ai(Fix)), and Ai(General) is returned only for a line that has
\* the ai prefix and is of none of the specific forms.
C20_SpecificBeforeGeneric ==
    routed # None =>
        /\ \A k \in 1..Len(SpecificForms) :
               is_match(SpecificForms[k], trim(typed)) => IsForm(SpecificForms[k], Routed)
        /\ (Routed.route = "Ai" /\ Routed.mode = General)
               => /\ is_match(AI_PREFIX, trim(typed))
                  /\ \A k \in 1..Len(SpecificForms) : ~is_match(SpecificForms[k], trim(typed))
        /\ \A ex \in RouteExamples : typed = ex[1] => Routed = ex[2]

\* route_input was called on "ai mode off" and returned the mode switch
C20_Witness ==
    /\ typed = "ai mode off"
    /\ routed = Some(Internal(SetMode("off")))

\* the line, trimmed, begins with ai or @ai and a whitespace character
HasAiPrefix ==
    \E word \in {"ai", "@ai"} :
        /\ starts_with(trim(typed), word)
        /\ Len(trim(typed)) > Len(word)
        /\ Char(trim(typed), Len(word) + 1) \in Whitespace

\* C21: every line that, once trimmed, does not begin with ai or @ai followed
\* by whitespace is routed to Shell, and the Shell route carries the line as it
\* was given, untrimmed (ls -la gives Shell("ls -la"), echo ai gives Shell).
C21_OthersToShell ==
    (routed # None /\ ~HasAiPrefix) => Routed = [route |-> "Shell", line |-> typed]

\* route_input was called on a line with a leading blank and no prefix, and
\* returned the Shell route with the blank kept
C21_Witness ==
    /\ typed = " ls"
    /\ routed = Some([route |-> "Shell", line |-> " ls"])

\* the flags and the policy needs_confirmation was called with
Given == returned_flags[1]

\* C29: for every setting of the flags and of the two confirmation toggles,
\* needs_confirmation is is_blocked, or is_destructive with
\* require_confirmation_for_destructive, or requires_sudo with
\* require_confirmation_for_sudo, or affects_critical_service, or
\* affects_database, or affects_network; modifies_packages and
\* modifies_protected_path alone never require confirmation.
C29_ConfirmationRule ==
    confirmation_needed # None =>
        /\ confirmation_needed[1] =
              (\/ Given.is_blocked
               \/ (Given.is_destructive /\ safety_config.require_confirmation_for_destructive)
               \/ (Given.requires_sudo /\ safety_config.require_confirmation_for_sudo)
               \/ Given.affects_critical_service
               \/ Given.affects_database
               \/ Given.affects_network)
        /\ (Given \in {[DefaultFlags EXCEPT !.modifies_packages = pk,
                                            !.modifies_protected_path = pp] :
                          pk, pp \in BOOLEAN})
              => confirmation_needed[1] = FALSE

\* needs_confirmation was called on flags with modifies_packages and
\* modifies_protected_path alone, under the default policy, and said no
C29_Witness ==
    /\ confirmation_needed = Some(FALSE)
    /\ safety_config = DefaultSafetyConfig
    /\ Given = [DefaultFlags EXCEPT !.modifies_packages = TRUE,
                                    !.modifies_protected_path = TRUE]

\* C30: the environment of the spawned child shell holds, of the variables of
\* the parent, only those on the allow-list (HOME, USER, LOGNAME, PATH, LANG,
\* LC_ALL, LC_CTYPE, TERM, EDITOR, VISUAL, PAGER, SHELL, ZDOTDIR, BASH_ENV and
\* the names ending in _API_KEY or _TOKEN); no other variable is inherited.
C30_OnlyAllowListInherited ==
    child_env # None =>
        \A e \in child_env[1] :
            e \in parent_env
              => \/ e[1] \in {"HOME", "USER", "LOGNAME", "PATH", "LANG", "LC_ALL", "LC_CTYPE",
                              "TERM", "EDITOR", "VISUAL", "PAGER", "SHELL", "ZDOTDIR", "BASH_ENV"}
                 \/ ends_with(e[1], "_API_KEY")
                 \/ ends_with(e[1], "_TOKEN")

(***************************************************************************)
(* The properties of the session.                                          *)
(***************************************************************************)
\* the states of the session's state machine, as positions of the main thread
RunningRaw == session \in {"read", "for_byte", "try_wait"}
InHandler == session \in {"handle_ai_command", "query", "execute"}
SuspendedForAi == InHandler \/ session = "handler_done"

\* C22: when a completed line is intercepted, raw mode is disabled and the
\* line buffer cleared before the handler starts, and raw mode is enabled
\* again after the handler ends, however it ends (normal return, AI error,
\* execution error): the terminal is cooked throughout the handler and raw
\* whenever the session is in RunningRaw.
C22_RawOutsideHandler ==
    /\ SuspendedForAi => (~raw_mode /\ line_buf = "")
    /\ RunningRaw => raw_mode

\* the handler ended with an execution error and the input loop goes on in raw
\* mode
C22_Witness ==
    /\ session = "for_byte"
    /\ outcome = "execution_error"
    /\ raw_mode

\* C23: the bytes read are written to the PTY byte for byte and in order,
\* except the CR or LF that completes an intercepted line: whenever the input
\* loop is back at its read, the PTY has received the bytes read less those
\* line ends, so the child never receives an intercepted line as a command.
C23_InterceptedNotWritten ==
    session = "read" => pty_written = unintercepted

\* the byte the for loop is at
AtByte == data[byte_index]

\* C24, one step: a handler is entered only from the for loop, at a CR or LF,
\* with a non-empty line that routes to Ai or Internal, and not in mode Off; in
\* mode Off a turn of the for loop only moves to the next byte.
C24_EnterStep ==
    /\ (~SuspendedForAi /\ SuspendedForAi')
          => /\ session = "for_byte"
             /\ AtByte \in {"\r", "\n"}
             /\ line_buf # ""
             /\ ai_mode # "Off"
             /\ route_input(line_buf).route \in {"Ai", "Internal"}
             /\ session' = "handle_ai_command"
    /\ (ai_mode = "Off" /\ session = "for_byte" /\ session' # session)
          => /\ session' \in {"try_wait", "shutdown"}
             /\ byte_index > Len(data)
    /\ (ai_mode = "Off" /\ session = "for_byte" /\ byte_index' # byte_index)
          => /\ session' = "for_byte"
             /\ unintercepted' = Append(unintercepted, AtByte)

\* C24: the session enters SuspendedForAi only on a completed non-empty line
\* that routes to Ai or Internal while the AI mode is not Off; while the mode
\* is Off every line, the ai-prefixed ones too, goes the way of a Shell line
\* and no handler is entered.
C24_SuspendedOnlyForAi == [][C24_EnterStep]_vars

\* the mode was switched off by the first line, and the second line, ai fix,
\* went to the PTY without a handler
C24_Witness ==
    /\ session = "try_wait"
    /\ ai_mode = "Off"
    /\ received = Some(Internal(SetMode("off")))
    /\ outcome = "internal"
    /\ data = Bytes("ai fix\r")
    /\ unintercepted = Bytes("ai mode off") \o Bytes("ai fix\r")

\* C25: after stdin has ended or the child shell has exited, run reaches
\* Exited, with both threads scheduled fairly and without further input of the
\* user or output of the child.
C25_EventuallyExited ==
    (stdin_eof \/ child = "exited") ~> (session = "Exited")

\* C26, one step: a step of the handler stays in the handler or ends it, and
\* the step after its end goes back to the for loop; neither ends the input
\* loop, clears the running flag or touches the child.
C26_HandlerStep ==
    /\ (InHandler /\ session' # session)
          => /\ InHandler' \/ session' = "handler_done"
             /\ running' = running
             /\ child' = child
    /\ (session = "handler_done" /\ session' # session)
          => /\ session' = "for_byte"
             /\ running' = running
             /\ child' = child

\* C26: a failure of the AI interaction (no orchestrator, an error of the
\* query, an execution that ends in Cancelled, Blocked, StepFailed or
\* CommandFailed) abandons only that interaction: the handler returns, the
\* session is back in RunningRaw and goes on with the input, and the session
\* does not end the child.
C26_FailureAbandonsInteraction == [][C26_HandlerStep]_vars

\* the first line ended in an error of the query; the second line was read
\* and written to the PTY, and the child is alive
C26_Witness ==
    /\ outcome = "ai_error"
    /\ reads = 2
    /\ session = "read"
    /\ data = Bytes("ls\r")
    /\ child = "alive"
    /\ running

\* C27: whenever the engine waits at a line-based prompt in a session (plan
\* confirmation, edit, dangerous-step confirmation, failure resolution) raw
\* mode is disabled, and once the interaction has ended, with a result or with
\* an error, the input loop goes on in raw mode.
C27_PromptsInCookedMode ==
    /\ pc \in PromptPcs => (session = "execute" /\ ~raw_mode)
    /\ (session = "for_byte" /\ outcome \in {"ok", "execution_error"}) => raw_mode

\* the engine waits for the answer at the failure prompt, in cooked mode
C27_Witness ==
    /\ session = "execute"
    /\ pc = "prompt_failure_action"
    /\ input = None
    /\ ~raw_mode

(***************************************************************************)
(* C31: the Spinner's animation threads.                                   *)
(***************************************************************************)
\* the animation threads that exist: spawned and not yet joined
Existing == {t \in 1..Len(animation) : animation[t].at # "joined"}

\* C31: after any sequence of start and stop calls at most one animation
\* thread exists, a start while running spawns none, and when stop has
\* returned the flag is false and every thread spawned has ended and been
\* joined.
C31_OneAnimationThread ==
    spinner # None =>
        /\ Cardinality(Existing) <= 1
        /\ spinner_call[1].at = "already_running" =>
               /\ spinner[1].running
               /\ Existing = {spinner[1].handle[1]}
        /\ spinner_call[1].at = "stop" =>
               /\ ~spinner[1].running
               /\ spinner[1].handle = None
               /\ Existing = {}

C31_Witness ==
    /\ spinner # None
    /\ spinner_call[1].at = "stop"
    /\ Len(animation) = 2
    /\ animation[2].at = "joined"
    /\ animation[2].frame_idx > 0

(***************************************************************************)
(* C32: the count reported on completion.                                  *)
(***************************************************************************)
\* println!("\n✓ Execution complete ({} steps)", results.len())
ReportedSteps(res) == Len(res)

\* the loop has run to its end and the completion line has been printed
Completed == pc = "done" /\ ret.tag = "Ok" /\ steps_to_run # <<>>

\* the loop positions whose step was run by a process
StepsRun == {spawned[k][1] : k \in DOMAIN spawned}

\* C32: on normal completion the count reported is the number of distinct
\* steps of the run list that were executed; a retried step counts once.
C32_ReportsStepsRun ==
    Completed => ReportedSteps(ret.results) = Cardinality(StepsRun)

(***************************************************************************)
(* C33: no step is executed again unless the user asks for it.             *)
(***************************************************************************)
\* the number of processes run for the step at loop position p
TimesRun(p) == Cardinality({k \in DOMAIN spawned : spawned[k][1] = p})

\* each step is run at most twice, and the StepResults are those of the
\* processes run, in step order
C33_TwiceInOrder ==
    /\ \A p \in 1..Len(steps_to_run) : TimesRun(p) <= 2
    /\ \A k \in DOMAIN spawned : k > 1 => spawned[k - 1][1] <= spawned[k][1]
    /\ Len(results) = Len(spawned)
    /\ \A k \in DOMAIN results : results[k].step_id = steps_to_run[spawned[k][1]].id

\* a step that runs a process for a step run before directly follows the
\* answer retry at that step's failure prompt, and execute does nothing more
\* once it has returned
C33_RunStep ==
    /\ (spawned' # spawned /\ TimesRun(i) > 0) => pc = "retry_step"
    /\ (pc' = "retry_step" /\ pc # "retry_step")
           => /\ pc = "prompt_failure_action"
              /\ input # None
              /\ Answer \in {"r", "retry"}
              /\ i' = i
    /\ ret.tag = "Err" => spawned' = spawned /\ results' = results

\* C33: within one execute call each step of the run list is executed at most
\* twice, the second time only directly after the user answered retry at that
\* step's failure prompt; the StepResults are in step order; after Cancelled,
\* Blocked or StepFailed no further step is executed.
C33_NoAutoRetry == []C33_TwiceInOrder /\ [][C33_RunStep]_vars

C33_Witness ==
    /\ pc = "done"
    /\ ret.tag = "Ok"
    /\ Len(spawned) = 3
    /\ spawned[1][1] = 1
    /\ spawned[2][1] = 1
    /\ spawned[3][1] = 2

(***************************************************************************)
(* C34: the command analysed is the command run.                           *)
(***************************************************************************)
\* every process run was given the command analyze_command was given at the
\* same loop position, and a command reported blocked ends the call as Blocked
C34_RunIsAnalyzed ==
    /\ \A k \in DOMAIN spawned : \E j \in DOMAIN analyzed : analyzed[j] = spawned[k]
    /\ \A j \in DOMAIN analyzed :
           /\ analyzed[j][2] = steps_to_run[analyzed[j][1]].shell_command
           /\ FlagsOf(analyzed[j][2]).is_blocked
                  => /\ j = Len(analyzed)
                     /\ ret = Err(Blocked(analyzed[j][2]))

\* a replacement typed at the "New command:" prompt makes the step carry the
\* trimmed replacement, with the id, the needs_confirmation flag and the
\* working directory of the step it replaces
C34_EditStep ==
    (pc = "edit_new_command" /\ input # None /\ trim(input[1]) # "")
        => \E list \in {edited_steps', steps_to_run'} :
              /\ list # <<>>
              /\ list[Len(list)] =
                    [action.steps[edit_index] EXCEPT !.shell_command = trim(input[1])]

\* C34: the command passed to the shell is the command given to
\* analyze_command in the same loop iteration, the edited command when the
\* user edited the step; an edit that makes a step a blocked command ends the
\* action as Blocked; the edited step keeps the id and the needs_confirmation
\* flag of the original.
C34_DecisionOnCommandRun == []C34_RunIsAnalyzed /\ [][C34_EditStep]_vars

\* the first step, proposed as a blocked command, was edited to a safe one and
\* run; the second, edited to a blocked command, ended the call
C34_Witness ==
    /\ Len(action.steps) = 2
    /\ action.steps[1].shell_command = "rm -rf /"
    /\ action.steps[2].shell_command = "echo ok"
    /\ spawned = <<<<1, "echo ok">>>>
    /\ ret = Err(Blocked("rm -rf /"))
    /\ analyzed = <<<<1, "echo ok">>, <<2, "rm -rf /">>>>

(***************************************************************************)
(* C35: the warnings of a command that is not blocked.                     *)
(***************************************************************************)
\* the warnings of checks 2-8, in the order of the checks
CheckWarnings == <<
    "Command requires elevated privileges",
    "Command may delete or modify files",
    "Command operates on block devices",
    "Command modifies network/firewall configuration",
    "Command may destroy database data",
    "Command affects critical system services",
    "Command modifies installed packages" >>

CheckOf(text) == CHOOSE c \in 1..Len(CheckWarnings) : CheckWarnings[c] = text

\* the policy's protected paths the command given contains, in policy order
MatchingPaths ==
    LET Hit(path) == contains(command[1], shellexpand_path(path))
    IN  SelectSeq(safety_config.protected_paths, Hit)

\* C35: for a command no blocklist pattern matches, each of the checks sudo,
\* destructive filesystem, block device, network, database, critical service
\* and package management gives at most one warning, the protected-path check
\* one warning per matching policy path, in that order of the checks, each
\* check firing whatever the others did; the warning list is empty exactly
\* when no flag is set.
C35_WarningsPerCheck ==
    (returned_flags # None /\ ~returned_flags[1].is_blocked) =>
        LET f == returned_flags[1]
            w == f.warnings
            n == Len(w) - Len(MatchingPaths)
            Has(c) == \E k \in 1..Len(w) : w[k] = CheckWarnings[c]
        IN  /\ n \in 0..Len(CheckWarnings)
            /\ \A k \in 1..n : \E c \in 1..Len(CheckWarnings) : w[k] = CheckWarnings[c]
            /\ \A k \in 1..(n - 1) : CheckOf(w[k]) < CheckOf(w[k + 1])
            /\ \A k \in 1..Len(MatchingPaths) :
                   w[n + k] = "Command affects protected path: " \o MatchingPaths[k]
            /\ f.requires_sudo <=> Has(1)
            /\ f.is_destructive <=> (Has(2) \/ Has(3) \/ Has(4) \/ Has(5))
            /\ f.affects_network <=> Has(4)
            /\ f.affects_database <=> Has(5)
            /\ f.affects_critical_service <=> Has(6)
            /\ f.modifies_packages <=> Has(7)
            /\ f.modifies_protected_path <=> (MatchingPaths # <<>>)
            /\ (w = <<>>) <=> ([f EXCEPT !.warnings = <<>>] = DefaultFlags)

\* three checks fire for one command, the protected-path check twice
C35_Witness ==
    /\ command = Some("sudo iptables -F && cat /etc/passwd /etc/shadow")
    /\ returned_flags # None
    /\ returned_flags[1].warnings =
         << "Command requires elevated privileges",
            "Command modifies network/firewall configuration",
            "Command affects protected path: /etc/passwd",
            "Command affects protected path: /etc/shadow" >>

(***************************************************************************)
(* C36: what the network, database and critical-service flags say of       *)
(* is_destructive.                                                         *)
(***************************************************************************)
\* C36: in every SafetyFlags returned by analyze_command affects_network
\* implies is_destructive and affects_database implies is_destructive;
\* affects_critical_service does not (the witness: systemctl restart sshd).
C36_NetworkDatabaseDestructive ==
    returned_flags # None =>
        /\ returned_flags[1].affects_network => returned_flags[1].is_destructive
        /\ returned_flags[1].affects_database => returned_flags[1].is_destructive

C36_Witness ==
    /\ returned_flags # None
    /\ returned_flags[1].affects_critical_service
    /\ ~returned_flags[1].is_destructive
    /\ ~returned_flags[1].is_blocked

(***************************************************************************)
(* C37: analyze_command is total.                                          *)
(***************************************************************************)
\* the policy without the blocklist patterns that Regex::new rejects
ValidPatternsOnly ==
    LET Compiles(pattern) == Regex_new(pattern).ok
    IN  [safety_config EXCEPT !.blocked_patterns = SelectSeq(@, Compiles)]

\* C37: for every command text, the empty one included, and every policy,
\* one with blocklist patterns that are not regular expressions included,
\* analyze_command returns a SafetyFlags value; a pattern that does not compile
\* is skipped: the value is the one returned under the policy without it, so
\* the patterns after it and checks 2-9 are evaluated.
C37_Total ==
    (command # None /\ pc = "done") =>
        /\ returned_flags # None
        /\ DOMAIN returned_flags[1] = DOMAIN DefaultFlags
        /\ \A flag \in DOMAIN DefaultFlags \ {"warnings"} : returned_flags[1][flag] \in BOOLEAN
        /\ returned_flags[1].warnings \in Seq(STRING)
        /\ returned_flags[1] = analyze_command(command[1], ValidPatternsOnly)

\* the pattern after one that does not compile blocks the command
C37_Witness ==
    /\ command = Some("sudo apt update")
    /\ safety_config.blocked_patterns = <<"(", "sudo">>
    /\ returned_flags # None
    /\ returned_flags[1].is_blocked
    /\ returned_flags[1].warnings = <<"Command matches blocked pattern: sudo">>

(***************************************************************************)
(* C38: an answer that is no action runs nothing.                          *)
(***************************************************************************)
\* no attempt of parse_ai_response finds an AiAction in the text
Unparseable(text) ==
    /\ from_str(text).tag = "Err"
    /\ \A k \in 1..3 :
          extract_json_from_markdown(text, k) # None
              => from_str(extract_json_from_markdown(text, k)[1]).tag = "Err"
    /\ extract_json_object(text) # None => from_str(extract_json_object(text)[1]).tag = "Err"

\* C38: parse_ai_response never returns an error; for an answer that cannot
\* be parsed as an action it returns an AnswerOnly action whose summary is the
\* answer as it came and whose step list is empty, and the execute call made
\* with that action is never at a prompt and runs no process.
C38_UnparsedRunsNothing ==
    parsed # None =>
        /\ parsed[1].tag = "Ok"
        /\ Unparseable(content[1]) =>
               /\ parsed[1].results = [kind |-> "AnswerOnly", summary |-> content,
                                      steps |-> <<>>]
               /\ action = [kind |-> "AnswerOnly", steps |-> <<>>]
               /\ pc \in {"execute", "done"}
               /\ spawned = <<>>
               /\ pc = "done" => ret = Ok(<<>>)

\* the answer names a command in prose; execute has returned
C38_Witness ==
    /\ content = Some("Run rm -rf / to free space.")
    /\ parsed # None
    /\ parsed[1].results.kind = "AnswerOnly"
    /\ pc = "done"
    /\ ret = Ok(<<>>)

(***************************************************************************)
(* C39: every process run during one execute call is reported.             *)
(***************************************************************************)
\* the StepResults the caller of execute receives: those of Ok(results), none
\* with an error
ReceivedResults(r) == IF r.tag = "Ok" THEN Len(r.results) ELSE 0

\* C39: when execute has returned, the caller has received one StepResult for
\* every process run during the call, also when the call ends with Blocked,
\* StepFailed or CommandFailed after earlier steps have run.
C39_EveryExecutionReported ==
    pc = "done" => ReceivedResults(ret) = Len(spawned)

(***************************************************************************)
(* C40: executing a step leaves the working directory of the process as    *)
(* it was.                                                                 *)
(***************************************************************************)
\* C40: the engine starts in "/", and whatever way execute_step returns
\* (success, nonzero exit, failed chdir into working_directory, failure to
\* spawn the command) the current directory is the one before the call, so it
\* is "/" at every point of the execute call.
C40_DirectoryRestored ==
    cwd = "/"

====
